---- MODULE Spec2Model ----
(***************************************************************************)
(* Achievement engine of Quit Coach: streak derivation from the daily log  *)
(* (services/dailyLogs.js), badge evaluation and the idempotent unlock     *)
(* transaction with its notification step (services/badges.js,             *)
(* services/notifications.js, server/push.js), and the writers of the      *)
(* cached streak fields of the profile (pages/DailyLog.jsx,                *)
(* pages/Profile.jsx, pages/Dashboard.jsx).                                *)
(*                                                                         *)
(* Calendar dates ("YYYY-MM-DD") are day numbers 0..MaxDay; ISO strings    *)
(* compare as their day numbers do.  A JavaScript Date is a number of      *)
(* hours since 00:00 UTC of day 0.                                         *)
(***************************************************************************)
EXTENDS Integers, Sequences, FiniteSets, TLC

VARIABLES
    logs,        \* users/{uid}/dailyLogs of the evaluated user: date -> entry
    profile,     \* users/{uid}: a document, fields may be missing
    today,       \* the evaluation date (todayIso)
    zone,        \* local time zone of the process
    streak,      \* result of the pending computeStreakFromQuit call
    badges,      \* users/{uid}/badges/{badgeId}
    notifications,   \* users/{uid}/notifications, in creation order
    clock,       \* serverTimestamp()
    inFlightUnlocks, \* per process (tab): the module-level Set of badges.js
    task,        \* the async calls in progress: position and locals
    nEdits,      \* log saves and badge clicks made so far
    nFaults,     \* failed store, network and server calls so far
    challenges,  \* Challenge: the user's documents with completed = true
    leaderboard, \* leaderboard/{id}: the rows (points, streak, saved)
    page,        \* per tab: the DailyLog page (selectedDate, dailyLogEntry)
    jobs,        \* background writers of users/{uid} and leaderboard/{uid}
    devices,     \* users/{uid}/devices: the registered push tokens
    challengeDocs,   \* Challenge/{id}: the documents a user can complete
    lbTimer,     \* _lbTimer of users.js: a publish is scheduled
    server,      \* the server process: started or not, and Athens time
    cronJobs,    \* the pairs of tasks registered with cron.schedule
    reminders    \* users/{uid}/notifications/{type}_{date} of the cron jobs

streakVars == <<logs, profile, today, zone, streak>>
engineVars == <<badges, notifications, clock, inFlightUnlocks, task, nEdits,
               nFaults>>
otherVars == <<challenges, leaderboard, devices, challengeDocs, lbTimer,
              server, cronJobs, reminders>>
pageVars == <<page, jobs>>
vars == <<logs, profile, today, zone, streak,
          badges, notifications, clock, inFlightUnlocks, task, nEdits, nFaults,
          challenges, leaderboard, page, jobs,
          devices, challengeDocs, lbTimer, server, cronJobs, reminders>>

----------------------------------------------------------------------------
(* Bounds *)
MaxDay == 3          \* dates are 0..MaxDay
MaxCigs == 1         \* cigarettes_smoked entered in a form: 0..MaxCigs
MaxLogs == 3         \* number of dates that have a log entry
DstDay == 2          \* first day whose local midnight is in summer time

Dates == 0..MaxDay
NoDate == -1         \* null
NoLog == [absent |-> TRUE]
NoStreak == [pending |-> FALSE]

HoursPerDay == 24
NoDst == MaxDay + 1000  \* a zone without a transition in the window

----------------------------------------------------------------------------
(* Time zones and the Date conversions used by computeStreakFromQuit *)

Zones ==
    { [std |-> -5, dstDay |-> NoDst],      \* UTC-5
      [std |-> 0,  dstDay |-> NoDst],      \* UTC
      [std |-> 2,  dstDay |-> NoDst],      \* UTC+2 (Europe/Athens, winter)
      [std |-> 2,  dstDay |-> DstDay] }    \* UTC+2 -> UTC+3 during the window

\* the zone the app is run in (the cron jobs of server/push.js: Europe/Athens)
AppZone == [std |-> 2, dstDay |-> DstDay]

\* UTC offset (hours) in force at local midnight of day d
UtcOffset(z, d) == IF d >= z.dstDay THEN z.std + 1 ELSE z.std

\* new Date(iso + "T00:00:00"): local midnight of the date, as a UTC instant
ParseLocalMidnight(z, d) == d * HoursPerDay - UtcOffset(z, d)

\* date.toISOString().slice(0, 10): the UTC calendar day of an instant
ToIsoDate(h) == h \div HoursPerDay

\* nextDay(iso): parse as local midnight, setDate(+1), format in UTC
nextDay(z, iso) == ToIsoDate(ParseLocalMidnight(z, iso + 1))

\* a difference that is not clamped at 0
MaxNoClamp(a, b) == b

Max(a, b) == IF a >= b THEN a ELSE b

----------------------------------------------------------------------------
(* Daily log store *)

LogDates(L) == { d \in DOMAIN L : L[d] # NoLog }

\* the normalized object written by upsertDailyLog
Normalize(data) ==
    LET cigCount == IF "cigarettes_smoked" \in DOMAIN data
                    THEN data.cigarettes_smoked ELSE 0
    IN [ cigarettes_smoked |-> cigCount,
         smoke_free |-> IF "smoke_free" \in DOMAIN data
                        THEN data.smoke_free /\ cigCount = 0
                        ELSE cigCount = 0 ]

\* upsertDailyLog(uid, date, data): setDoc(ref, normalized, {merge: true})
upsertDailyLog(L, d, data) == [L EXCEPT ![d] = Normalize(data)]

\* the data objects a caller can pass: each field given or omitted
LogInputs ==
    [cigarettes_smoked : 0..MaxCigs, smoke_free : BOOLEAN]
      \cup [cigarettes_smoked : 0..MaxCigs]
      \cup [smoke_free : BOOLEAN]

\* the slip query without where("date", "<=", todayIso)
qSlipNoUpperBound(L, quitIso, todayIso) ==
    { d \in LogDates(L) : L[d].smoke_free = FALSE /\ d >= quitIso }

\* qSlip: smoke_free == false, quitIso <= date <= todayIso, newest first, limit 1
qSlip(L, quitIso, todayIso) ==
    { d \in LogDates(L) : /\ L[d].smoke_free = FALSE
                          /\ d >= quitIso /\ d <= todayIso }

\* qCigs: cigarettes_smoked > 0, quitIso <= date <= todayIso, newest first, limit 1
qCigs(L, quitIso, todayIso) ==
    { d \in LogDates(L) : /\ L[d].cigarettes_smoked > 0
                          /\ d >= quitIso /\ d <= todayIso }

\* orderBy("date", "desc"), limit(1): the docs of the snapshot
First(S) == IF S = {} THEN {} ELSE { CHOOSE d \in S : \A e \in S : e <= d }

computeStreakFromQuit(L, quitIso, todayIso, z) ==
    IF quitIso = NoDate
    THEN [current_streak_days |-> 0, streak_start_date |-> NoDate,
          last_slip_date |-> NoDate]
    ELSE
      LET candidates == First(qSlip(L, quitIso, todayIso))
                          \cup First(qCigs(L, quitIso, todayIso))
          lastSlipIso == IF candidates = {} THEN NoDate
                         ELSE CHOOSE d \in candidates : \A e \in candidates : e <= d
          startIso == IF lastSlipIso = NoDate THEN quitIso
                      ELSE nextDay(z, lastSlipIso)
          dStart == ParseLocalMidnight(z, startIso)
          dToday == ParseLocalMidnight(z, todayIso)
          diffDays == Max(0, (dToday - dStart) \div HoursPerDay)
      IN [current_streak_days |-> diffDays, streak_start_date |-> startIso,
          last_slip_date |-> lastSlipIso]


----------------------------------------------------------------------------
(* Badge store, condition table and the calls of services/badges.js *)

MaxCond == 2         \* the evaluated prefix of the condition table
MaxEdits == 1        \* log saves / badge clicks during the calls
MaxFaults == 2       \* store, network and server failures during the calls

Users == {"u1", "u2"}
Clients == {"tabA", "tabB"}
\* two calls that overlap: two triggers in one tab, or one in each tab
Tasks == {1, 2}
\* getAuth().currentUser?.uid of each process: both tabs are signed in as u1
CurrentUser(c) == "u1"

NoBadge == [exists |-> FALSE]
NoTs == -1           \* a timestamp field that is not in the document

\* conditions[] of evaluateAndUnlockBadges, in table order; n is the threshold
\* (or the rank) the predicate compares its metric with
conditions ==
    << [id |-> "welcome",   kind |-> "welcome", n |-> 0],
       [id |-> "streak1",   kind |-> "streak",  n |-> 1],
       [id |-> "streak2",   kind |-> "streak",  n |-> 2],
       [id |-> "streak3",   kind |-> "streak",  n |-> 3],
       [id |-> "streak5",   kind |-> "streak",  n |-> 5],
       [id |-> "streak10",  kind |-> "streak",  n |-> 10],
       [id |-> "streak20",  kind |-> "streak",  n |-> 20],
       [id |-> "streak30",  kind |-> "streak",  n |-> 30],
       [id |-> "streak50",  kind |-> "streak",  n |-> 50],
       [id |-> "streak75",  kind |-> "streak",  n |-> 75],
       [id |-> "streak100", kind |-> "streak",  n |-> 100],
       [id |-> "streak200", kind |-> "streak",  n |-> 200],
       [id |-> "streak365", kind |-> "streak",  n |-> 365],
       [id |-> "streak500", kind |-> "streak",  n |-> 500],
       [id |-> "streak600", kind |-> "streak",  n |-> 600],
       [id |-> "streak700", kind |-> "streak",  n |-> 700],
       [id |-> "streak800", kind |-> "streak",  n |-> 800],
       [id |-> "streak900", kind |-> "streak",  n |-> 900],
       [id |-> "streak1000", kind |-> "streak", n |-> 1000],
       [id |-> "log",       kind |-> "logs",    n |-> 10],
       [id |-> "log2",      kind |-> "logs",    n |-> 30],
       [id |-> "log3",      kind |-> "logs",    n |-> 100],
       [id |-> "ai1",       kind |-> "ai",      n |-> 10],
       [id |-> "ai2",       kind |-> "ai",      n |-> 30],
       [id |-> "ai3",       kind |-> "ai",      n |-> 100],
       [id |-> "hypnosis1", kind |-> "hypnosis", n |-> 2],
       [id |-> "hypnosis2", kind |-> "hypnosis", n |-> 6],
       [id |-> "hypnosis3", kind |-> "hypnosis", n |-> 10],
       [id |-> "saving",    kind |-> "savings", n |-> 100],
       [id |-> "saving2",   kind |-> "savings", n |-> 500],
       [id |-> "saving3",   kind |-> "savings", n |-> 1000],
       [id |-> "leader_points_1", kind |-> "pointsRank", n |-> 1],
       [id |-> "leader_points_2", kind |-> "pointsRank", n |-> 2],
       [id |-> "leader_points_3", kind |-> "pointsRank", n |-> 3],
       [id |-> "leader_streak_1", kind |-> "streakRank", n |-> 1],
       [id |-> "leader_streak_2", kind |-> "streakRank", n |-> 2],
       [id |-> "leader_streak_3", kind |-> "streakRank", n |-> 3],
       [id |-> "leader_saved_1",  kind |-> "savedRank",  n |-> 1],
       [id |-> "leader_saved_2",  kind |-> "savedRank",  n |-> 2],
       [id |-> "leader_saved_3",  kind |-> "savedRank",  n |-> 3],
       [id |-> "challenge30", kind |-> "challenges", n |-> 30],
       [id |-> "challenge60", kind |-> "challenges", n |-> 60],
       [id |-> "challenge90", kind |-> "challenges", n |-> 90],
       [id |-> "health",    kind |-> "health",  n |-> 4],
       [id |-> "health2",   kind |-> "health",  n |-> 5],
       [id |-> "health3",   kind |-> "health",  n |-> 7] >>

NumCond == IF MaxCond < Len(conditions) THEN MaxCond ELSE Len(conditions)
BadgeIds == { conditions[i].id : i \in 1..NumCond }

\* a streak predicate that holds on the day of the threshold only
checkStreakExact(c, m) ==
    CASE c.kind = "welcome" -> m.createdAt
      [] c.kind = "streak"  -> m.streakDays = c.n
      [] OTHER -> FALSE

\* check(): the predicate of a condition over the metrics of this pass
check(c, m) ==
    CASE c.kind = "welcome" -> m.createdAt
      [] c.kind = "streak"  -> m.streakDays >= c.n
      [] c.kind = "logs"    -> m.logsCount >= c.n
      [] c.kind = "ai"      -> m.aiCount >= c.n
      [] c.kind = "hypnosis" -> m.hypCount >= c.n
      [] c.kind = "savings" -> m.savings >= c.n
      [] c.kind = "pointsRank" -> m.pointsRank = c.n
      [] c.kind = "streakRank" -> m.streakRank = c.n
      [] c.kind = "savedRank"  -> m.savedRank = c.n
      [] c.kind = "challenges" -> m.completedChallenges >= c.n
      [] c.kind = "health"  -> m.healthRank >= c.n

\* getLeaderboardRankTop3: 1, 2, 3 or null
NoRank == 0

\* leaderboard/{id}: the document ids, in ascending order of id
LeaderboardIds == <<"u1", "u2", "u3", "u4">>
NoRow == [absent |-> TRUE]
NoRows == [id \in {LeaderboardIds[k] : k \in 1..Len(LeaderboardIds)} |-> NoRow]

\* orderBy(field, ...) returns the documents that have the field
HasField(LB, id, field) == LB[id] # NoRow /\ field \in DOMAIN LB[id]

\* orderBy(field, "desc"): a comes before b; equal values in descending id
ComesBefore(LB, field, a, b) ==
    LET IdOrder(id) == CHOOSE k \in 1..Len(LeaderboardIds) : LeaderboardIds[k] = id
    IN \/ LB[a][field] > LB[b][field]
       \/ LB[a][field] = LB[b][field] /\ IdOrder(a) > IdOrder(b)

\* the ids of the documents of an ordered query, the first n of them
OrderedDocs(LB, field, n) ==
    LET docs == { id \in DOMAIN LB : HasField(LB, id, field) }
        place(id) == 1 + Cardinality({ b \in docs : ComesBefore(LB, field, b, id) })
        len == IF Cardinality(docs) < n THEN Cardinality(docs) ELSE n
    IN [k \in 1..len |-> CHOOSE id \in docs : place(id) = k]

\* the query without limit(3)
qTopNoLimit(LB, field) == OrderedDocs(LB, field, Len(LeaderboardIds))

\* qTop: query(col, orderBy(field, "desc"), limit(3))
qTop(LB, field) == OrderedDocs(LB, field, 3)

\* getLeaderboardRankTop3(field, uid): the first position whose row is uid's
getLeaderboardRankTop3(LB, field, uid) ==
    LET snap == qTop(LB, field)
        \* row.uid || docSnap.id
        docUid(id) == IF "uid" \in DOMAIN LB[id] THEN LB[id].uid ELSE id
        hits == { pos \in 1..Len(snap) : docUid(snap[pos]) = uid }
    IN IF hits = {} THEN NoRank
       ELSE CHOOSE pos \in hits : \A h \in hits : pos <= h

\* HEALTH_STAGE_RANK[healthStageId] ?? -1
HEALTH_STAGE_RANK(id) ==
    CASE id = "wk2_to_wk12" -> 4
      [] id = "mo1" -> 5
      [] id = "mo6" -> 7
      [] OTHER -> -1

\* HEALTH_STAGES of the Dashboard: the first smoke-free day (start) of the
\* stage of a rank that the table of conditions names
HealthStageStart(rank) ==
    CASE rank = HEALTH_STAGE_RANK("wk2_to_wk12") -> 14
      [] rank = HEALTH_STAGE_RANK("mo1") -> 30
      [] rank = HEALTH_STAGE_RANK("mo6") -> 180

\* the document d with the fields of data set: setDoc(ref, data, {merge: true})
Merge(d, data) ==
    [f \in DOMAIN d \cup DOMAIN data |->
        IF f \in DOMAIN data THEN data[f] ELSE d[f]]

\* Number(doc?.field || dflt) for a numeric field of a document
NumOr(d, field, dflt) ==
    IF field \in DOMAIN d /\ d[field] # 0 THEN d[field] ELSE dflt

\* String(doc?.field || "")
StrOr(d, field) == IF field \in DOMAIN d THEN d[field] ELSE ""

\* Math.round(num / den): the nearest integer, halves upwards
Round(num, den) ==
    IF den > 0 THEN (2 * num + den) \div (2 * den)
    ELSE (2 * (0 - num) + (0 - den)) \div (2 * (0 - den))

\* computeSavingsEuros(profile, streakDays)
computeSavingsEuros(prof, streakDays) ==
    LET cpd == NumOr(prof, "cigarettes_per_day_before", 0)
        pricePerPack == NumOr(prof, "cost_per_pack", 0)
        cigsPerPack == NumOr(prof, "cigarettes_per_pack", 20)
    IN IF cigsPerPack = 0 \/ pricePerPack = 0 \/ cpd = 0 THEN 0
       ELSE Round(cpd * pricePerPack * streakDays, cigsPerPack)

NoProfile == [createdAt |-> FALSE]

NoMetrics ==
    [createdAt |-> FALSE, streakDays |-> 0, quitIso |-> NoDate,
     logsCount |-> 0, aiCount |-> 0, hypCount |-> 0, savings |-> 0,
     healthRank |-> -1, completedChallenges |-> 0,
     pointsRank |-> NoRank, streakRank |-> NoRank, savedRank |-> NoRank]

\* one unlock() call of a task, per badge id: locals and what it has done
NoCall == [result |-> "none", wrote |-> FALSE, notify |-> 0, fallback |-> 0,
           stored |-> 0]

IdleTask ==
    [pc |-> "idle", kind |-> "none", client |-> "none", uid |-> "none",
     i |-> 0, prof |-> NoProfile, m |-> NoMetrics, unl |-> FALSE,
     newlyUnlocked |-> <<>>,
     ret |-> <<>>, missing |-> {}, badge |-> "none", snap |-> NoBadge,
     threw |-> "none", err |-> "none", prior |-> {},
     \* the ids whose iteration ended in the catch inside the loop
     failed |-> {},
     hist |-> [a \in BadgeIds |-> NoCall]]

InitEngine ==
    /\ badges = [u \in Users |-> [a \in BadgeIds |-> NoBadge]]
    /\ notifications = <<>>
    /\ clock = 0
    /\ inFlightUnlocks = [c \in Clients |-> {}]
    /\ task = [t \in Tasks |-> IdleTask]
    /\ nEdits = 0
    /\ nFaults = 0

\* isUnlocked(uid, badgeId): s.exists()
isUnlocked(B, uid, badgeId) == B[uid][badgeId] # NoBadge

\* markBadgeSeen without {merge: true}: the document is replaced
MarkSeenDocNoMerge(old, ts) == [unlockedAt |-> NoTs, seen |-> TRUE, seenAt |-> ts]

\* markBadgeSeen: setDoc(ref, {seen: true, seenAt}, {merge: true})
MarkSeenDoc(old, ts) ==
    IF old = NoBadge
    THEN [unlockedAt |-> NoTs, seen |-> TRUE, seenAt |-> ts]
    ELSE [old EXCEPT !.seen = TRUE, !.seenAt = ts]

\* a transaction that sets the record without the existence check
TxWritesAlways(snap) == TRUE

\* the update function of unlock's transaction: write unless the doc exists
TxWrites(snap) == snap = NoBadge

\* tx.set(ref, {unlockedAt: serverTimestamp(), seen: false}, {merge: true})
UnlockDoc(ts) == [unlockedAt |-> ts, seen |-> FALSE, seenAt |-> NoTs]

\* an unlock that notifies first and looks at wrote only when it returns
UnlockControlNotifyFirst(wrote, notified) ==
    IF ~notified THEN "notify"
    ELSE IF wrote THEN "unlocked" ELSE "deduped"

\* what unlock does with the transaction's result: `if (!wrote) return
\* { id, deduped: true }`, else the notification, and `return { id }` after it
UnlockControl(wrote, notified) ==
    IF notified THEN "unlocked"
    ELSE IF wrote THEN "notify" ELSE "deduped"

\* the fallback called without its try/catch
FallbackErrorThrown == FALSE

\* the catch around createAndPushNotification keeps its error inside unlock
FallbackErrorCaught == TRUE

\* the guard of unlock: inFlightUnlocks.has(badgeId)
GuardHit(set, uid, badgeId) == badgeId \in set

\* errors a store call can end with
StoreErrors == {"permission-denied", "unavailable"}

----------------------------------------------------------------------------
(* evaluateAndUnlockBadges and unlock, one action per await *)

Range(q) == { q[k] : k \in 1..Len(q) }

SetTask(t, tk) == task' = [task EXCEPT ![t] = tk]

\* a call to the store, the network or the server that may fail
Fault(failed) ==
    /\ failed => nFaults < MaxFaults
    /\ nFaults' = IF failed THEN nFaults + 1 ELSE nFaults

\* an unlock() without its finally block
ReleaseNever(t) == UNCHANGED inFlightUnlocks

\* finally { inFlightUnlocks.delete(badgeId) }
Release(t) ==
    inFlightUnlocks' = [inFlightUnlocks EXCEPT
                          ![task[t].client] = @ \ {task[t].badge}]

\* newlyUnlocked.push(id) after `await unlock(uid, id)` has returned res
NewlyUnlockedAfter(list, id, res) == Append(list, id)

\* `return newlyUnlocked`; B is the badge store at that moment
EvalReturn(tk, list, B) ==
    [tk EXCEPT !.pc = "done", !.newlyUnlocked = list, !.ret = list,
               !.missing = { a \in Range(list) : ~isUnlocked(B, tk.uid, a) },
               \* locals that are dead after the return
               !.prof = NoProfile, !.m = NoMetrics, !.unl = FALSE,
               !.badge = "none", !.snap = NoBadge]

\* the end of one iteration of the loop over conditions
EvalAdvance(tk, list, B) ==
    IF tk.i + 1 > NumCond
    THEN EvalReturn([tk EXCEPT !.i = @ + 1], list, B)
    ELSE [tk EXCEPT !.pc = "ev_isUnlocked", !.i = @ + 1, !.newlyUnlocked = list]

\* unlock() returned res to its caller
UnlockReturned(tk, res, B) ==
    LET tk1 == [tk EXCEPT !.hist[tk.badge].result = res]
    IN IF tk.kind = "unlock"
       THEN [tk1 EXCEPT !.pc = "done", !.snap = NoBadge]
       ELSE EvalAdvance(tk1, NewlyUnlockedAfter(tk.newlyUnlocked, tk.badge, res), B)

\* the catch inside the loop on permission-denied: `return newlyUnlocked`
LoopDeniedResult(list) == list

\* a catch inside the loop that returns on any error
ThrownAborts(tk, e, B) ==
    IF tk.kind = "unlock"
    THEN [tk EXCEPT !.pc = "done", !.threw = e, !.snap = NoBadge]
    ELSE IF e = "permission-denied"
         THEN EvalReturn([tk EXCEPT !.err = e], LoopDeniedResult(tk.newlyUnlocked), B)
         ELSE EvalReturn([tk EXCEPT !.failed = @ \cup {conditions[tk.i].id}],
                         tk.newlyUnlocked, B)

\* unlock() or isUnlocked() threw e: the catch inside the loop
Thrown(tk, e, B) ==
    IF tk.kind = "unlock"
    THEN [tk EXCEPT !.pc = "done", !.threw = e, !.snap = NoBadge]
    ELSE IF e = "permission-denied"
         THEN EvalReturn([tk EXCEPT !.err = e], LoopDeniedResult(tk.newlyUnlocked), B)
         ELSE EvalAdvance([tk EXCEPT !.failed = @ \cup {conditions[tk.i].id}],
                          tk.newlyUnlocked, B)

\* the synchronous head of unlock(uid, badgeId): the guards, then the Set
UnlockEnter(t, tk, a) ==
    LET tk1 == [tk EXCEPT !.badge = a] IN
    IF tk.uid = ""
    THEN /\ SetTask(t, UnlockReturned(tk1, "missing", badges))
         /\ UNCHANGED inFlightUnlocks
    ELSE IF GuardHit(inFlightUnlocks[tk.client], tk.uid, a)
    THEN /\ SetTask(t, UnlockReturned(tk1, "inflight", badges))
         /\ UNCHANGED inFlightUnlocks
    ELSE /\ SetTask(t, [tk1 EXCEPT !.pc = "un_tx",
                                   !.hist[a] = [NoCall EXCEPT !.result = "running"]])
         /\ inFlightUnlocks' = [inFlightUnlocks EXCEPT ![tk.client] = @ \cup {a}]

\* the calls for uid that have gone through the whole table and returned
CompletedPasses(uid) ==
    { p \in Tasks : /\ task[p].kind = "evaluate" /\ task[p].uid = uid
                    /\ task[p].pc = "done" /\ task[p].err = "none"
                    /\ task[p].i = NumCond + 1 }

CallEvaluate(t, c, uid) ==
    /\ task[t].pc = "idle"
    /\ LET tk == [task[t] EXCEPT !.kind = "evaluate", !.client = c, !.uid = uid,
                                 !.prior = CompletedPasses(uid)]
       IN IF uid = "" \/ uid # CurrentUser(c)
          THEN SetTask(t, EvalReturn(tk, <<>>, badges))
          ELSE SetTask(t, [tk EXCEPT !.pc = "ev_profile"])
    /\ UNCHANGED <<badges, notifications, clock, inFlightUnlocks, nEdits, nFaults>>
    /\ UNCHANGED streakVars
    /\ UNCHANGED <<otherVars, pageVars>>

CallUnlock(t, c, uid, a) ==
    /\ task[t].pc = "idle"
    /\ UnlockEnter(t, [task[t] EXCEPT !.kind = "unlock", !.client = c, !.uid = uid], a)
    /\ UNCHANGED <<badges, notifications, clock, nEdits, nFaults>>
    /\ UNCHANGED streakVars
    /\ UNCHANGED <<otherVars, pageVars>>

\* const profile = await getUserProfile(uid)
EvalProfile(t) ==
    /\ task[t].pc = "ev_profile"
    /\ SetTask(t, [task[t] EXCEPT !.pc = "ev_streak", !.prof = profile,
                     !.m = [@ EXCEPT
                        !.createdAt = "createdAt" \in DOMAIN profile /\ profile.createdAt,
                        !.quitIso = profile.quit_date,
                        !.aiCount = NumOr(profile, "ai_messages_count", 0),
                        !.hypCount = NumOr(profile, "audio_sessions_count", 0),
                        !.healthRank =
                            HEALTH_STAGE_RANK(StrOr(profile, "health_stage_id"))]])
    /\ UNCHANGED <<badges, notifications, clock, inFlightUnlocks, nEdits, nFaults>>
    /\ UNCHANGED streakVars
    /\ UNCHANGED <<otherVars, pageVars>>

\* streakDays = Number(streak.current_streak_days || 0) and
\* savings = computeSavingsEuros(profile, streakDays), for the result st of
\* computeStreakFromQuit
EvalStreakOf(t, st) ==
    /\ task[t].pc = "ev_streak"
    /\ SetTask(t, [task[t] EXCEPT !.pc = "ev_logsCount",
                     !.m = [@ EXCEPT
                        !.streakDays = st.current_streak_days,
                        !.savings = computeSavingsEuros(task[t].prof,
                                                         st.current_streak_days)]])
    /\ UNCHANGED <<badges, notifications, clock, inFlightUnlocks, nEdits, nFaults>>
    /\ UNCHANGED streakVars
    /\ UNCHANGED <<otherVars, pageVars>>

\* const streak = await computeStreakFromQuit(uid, quitIso, todayIso)
EvalStreak(t) ==
    EvalStreakOf(t, computeStreakFromQuit(logs, task[t].m.quitIso, today, zone))

\* const logsCount = await countDailyLogs(uid)
EvalLogsCount(t) ==
    /\ task[t].pc = "ev_logsCount"
    /\ SetTask(t, [task[t] EXCEPT !.pc = "ev_challenges",
                     !.m = [@ EXCEPT !.logsCount = Cardinality(LogDates(logs))]])
    /\ UNCHANGED <<badges, notifications, clock, inFlightUnlocks, nEdits, nFaults>>
    /\ UNCHANGED streakVars
    /\ UNCHANGED <<otherVars, pageVars>>

\* completedChallenges = (await getDocs(qRef)).size
EvalChallenges(t) ==
    /\ task[t].pc = "ev_challenges"
    /\ SetTask(t, [task[t] EXCEPT !.pc = "ev_ranks",
                     !.m = [@ EXCEPT !.completedChallenges = challenges]])
    /\ UNCHANGED <<badges, notifications, clock, inFlightUnlocks, nEdits, nFaults>>
    /\ UNCHANGED streakVars
    /\ UNCHANGED <<otherVars, pageVars>>

\* the catch around the challenge count: permission-denied returns [], any
\* other error leaves completedChallenges = 0 and the pass goes on
EvalChallengesFail(t, e) ==
    /\ task[t].pc = "ev_challenges"
    /\ IF e = "permission-denied"
       THEN SetTask(t, EvalReturn([task[t] EXCEPT !.err = e], <<>>, badges))
       ELSE SetTask(t, [task[t] EXCEPT !.pc = "ev_ranks"])
    /\ UNCHANGED <<badges, notifications, clock, inFlightUnlocks, nEdits>>
    /\ Fault(TRUE)
    /\ UNCHANGED streakVars
    /\ UNCHANGED <<otherVars, pageVars>>

\* pointsRank, streakRank, savedRank = await getLeaderboardRankTop3(field, uid)
EvalRanks(t) ==
    /\ task[t].pc = "ev_ranks"
    /\ SetTask(t, [task[t] EXCEPT !.pc = "ev_isUnlocked", !.i = 1,
                     !.m = [@ EXCEPT
                        !.pointsRank =
                            getLeaderboardRankTop3(leaderboard, "points", task[t].uid),
                        !.streakRank =
                            getLeaderboardRankTop3(leaderboard, "streak", task[t].uid),
                        !.savedRank =
                            getLeaderboardRankTop3(leaderboard, "saved", task[t].uid)]])
    /\ UNCHANGED <<badges, notifications, clock, inFlightUnlocks, nEdits, nFaults>>
    /\ UNCHANGED streakVars
    /\ UNCHANGED <<otherVars, pageVars>>

\* the outer catch: `return []` for permission-denied and, after a
\* console.warn, for every other error; nothing is rethrown
OuterCatch(e) == "none"

\* a read of the snapshot fails: the outer catch returns []
EvalReadFail(t, e) ==
    /\ task[t].pc \in {"ev_profile", "ev_streak", "ev_logsCount", "ev_ranks"}
    /\ SetTask(t, EvalReturn([task[t] EXCEPT !.err = e, !.threw = OuterCatch(e)],
                             <<>>, badges))
    /\ UNCHANGED <<badges, notifications, clock, inFlightUnlocks, nEdits>>
    /\ Fault(TRUE)
    /\ UNCHANGED streakVars
    /\ UNCHANGED <<otherVars, pageVars>>

\* await isUnlocked(uid, id)
EvalIsUnlocked(t) ==
    /\ task[t].pc = "ev_isUnlocked"
    /\ SetTask(t, [task[t] EXCEPT !.pc = "ev_check",
                     !.unl = isUnlocked(badges, task[t].uid, conditions[task[t].i].id)])
    /\ UNCHANGED <<badges, notifications, clock, inFlightUnlocks, nEdits, nFaults>>
    /\ UNCHANGED streakVars
    /\ UNCHANGED <<otherVars, pageVars>>

EvalIsUnlockedFail(t, e) ==
    /\ task[t].pc = "ev_isUnlocked"
    /\ SetTask(t, Thrown(task[t], e, badges))
    /\ UNCHANGED <<badges, notifications, clock, inFlightUnlocks, nEdits>>
    /\ Fault(TRUE)
    /\ UNCHANGED streakVars
    /\ UNCHANGED <<otherVars, pageVars>>

\* if (!unlocked && check()) { await unlock(uid, id); ... }
EvalCheck(t) ==
    /\ task[t].pc = "ev_check"
    /\ LET tk == task[t]
           c == conditions[tk.i]
       IN IF ~tk.unl /\ check(c, tk.m)
          THEN UnlockEnter(t, tk, c.id)
          ELSE /\ SetTask(t, EvalAdvance(tk, tk.newlyUnlocked, badges))
               /\ UNCHANGED inFlightUnlocks
    /\ UNCHANGED <<badges, notifications, clock, nEdits, nFaults>>
    /\ UNCHANGED streakVars
    /\ UNCHANGED <<otherVars, pageVars>>

\* unlock() threw e (the outer catch rethrows after the finally)
UnlockThrew(tk, e, B) ==
    Thrown([tk EXCEPT !.hist[tk.badge].result = "threw"], e, B)

\* runTransaction: tx.get(ref); `if (snap.exists()) return false`
UnlockTxGet(t) ==
    /\ task[t].pc = "un_tx"
    /\ LET tk == task[t]
           snap == badges[tk.uid][tk.badge]
       IN IF TxWrites(snap)
          THEN /\ SetTask(t, [tk EXCEPT !.pc = "un_commit", !.snap = snap])
               /\ UNCHANGED inFlightUnlocks
          ELSE \* the transaction returns wrote = false
               IF UnlockControl(FALSE, FALSE) = "deduped"
               THEN /\ SetTask(t, UnlockReturned(tk, "deduped", badges))
                    /\ Release(t)
               ELSE /\ SetTask(t, [tk EXCEPT !.pc = "un_notify"])
                    /\ UNCHANGED inFlightUnlocks
    /\ UNCHANGED <<badges, notifications, clock, nEdits, nFaults>>
    /\ UNCHANGED streakVars
    /\ UNCHANGED <<otherVars, pageVars>>

\* commit of the transaction: applies tx.set(..., {merge: true}) if the document
\* is as it was read, else the update function is run again
UnlockTxCommit(t) ==
    /\ task[t].pc = "un_commit"
    /\ LET tk == task[t]
           cur == badges[tk.uid][tk.badge]
       IN IF cur = tk.snap
          THEN /\ badges' = [badges EXCEPT ![tk.uid][tk.badge] =
                               IF cur = NoBadge THEN UnlockDoc(clock)
                               ELSE [cur EXCEPT !.unlockedAt = clock, !.seen = FALSE]]
               /\ clock' = clock + 1
               /\ SetTask(t, [tk EXCEPT !.pc = "un_notify",
                                        !.hist[tk.badge].wrote = TRUE])
               /\ UnlockControl(TRUE, FALSE) = "notify"
          ELSE /\ SetTask(t, [tk EXCEPT !.pc = "un_tx"])
               /\ UNCHANGED <<badges, clock>>
    /\ UNCHANGED <<notifications, inFlightUnlocks, nEdits, nFaults>>
    /\ UNCHANGED streakVars
    /\ UNCHANGED <<otherVars, pageVars>>

\* the transaction rejects with a store error: outer catch, then finally
UnlockTxFail(t, e) ==
    /\ task[t].pc \in {"un_tx", "un_commit"}
    /\ e = "already-exists" => badges[task[t].uid][task[t].badge] # NoBadge
    /\ IF e = "already-exists"
       THEN SetTask(t, UnlockReturned(task[t], "deduped", badges))
       ELSE SetTask(t, UnlockThrew(task[t], e, badges))
    /\ Release(t)
    /\ UNCHANGED <<badges, notifications, clock, nEdits>>
    /\ Fault(TRUE)
    /\ UNCHANGED streakVars
    /\ UNCHANGED <<otherVars, pageVars>>

\* a users/{uid}/notifications document of type badge_unlocked
BadgeNotification(uid, badgeId, via) ==
    [uid |-> uid, type |-> "badge_unlocked", badgeId |-> badgeId, via |-> via]

\* the outcomes of notifyBadgeUnlocked -> POST /push/badge-unlocked:
\*   "ok"          the route stores the notification, pushes and answers 200
\*   "unreached"   getFirebaseIdToken or fetch fails, or the route answers 401
\*   "add-failed"  notifications.add(...) throws: the route answers 500
\*   "push-failed" the notification is stored, then the prefs/devices read or
\*                 sendEachForMulticast throws (500), or the answer is lost
NotifyOutcomes == {"ok", "unreached", "add-failed", "push-failed"}

\* the route stores a notification document in these outcomes
RouteStores(outcome) == outcome \in {"ok", "push-failed"}

\* await notifyBadgeUnlocked(...) with the whole server route; the call returns
\* on 200 (`return { id }`, then finally) and throws otherwise (fallback next)
UnlockNotify(t, outcome) ==
    /\ task[t].pc = "un_notify"
    /\ LET tk == [task[t] EXCEPT
                    !.hist[task[t].badge].notify = @ + 1,
                    !.hist[task[t].badge].stored =
                        IF RouteStores(outcome) THEN @ + 1 ELSE @]
       IN /\ notifications' =
               IF RouteStores(outcome)
               THEN Append(notifications,
                      BadgeNotification(CurrentUser(tk.client), tk.badge, "server"))
               ELSE notifications
          /\ IF outcome = "ok"
             THEN /\ SetTask(t, UnlockReturned(tk,
                                   UnlockControl(tk.hist[tk.badge].wrote, TRUE),
                                   badges))
                  /\ Release(t)
             ELSE /\ SetTask(t, [tk EXCEPT !.pc = "un_fallback"])
                  /\ UNCHANGED inFlightUnlocks
    /\ UNCHANGED <<badges, clock, nEdits>>
    /\ Fault(outcome # "ok")
    /\ UNCHANGED streakVars
    /\ UNCHANGED <<otherVars, pageVars>>

\* the push tokens of the user's devices: one that FCM accepts and one of an
\* app that was uninstalled, which FCM rejects
RegisteredTokens == {"tokPhone", "tokOld"}
InvalidTokens == {"tokOld"}

\* Capacitor.isNativePlatform(): the second process is the Android app
IsNativePlatform(c) == c = "tabB"

\* a cleanup that deletes every token of the user
multicastPushDeleteAll(tokens) == {}

\* multicastPush on the server (POST /push/send): the tokens FCM rejects are
\* deleted from users/{uid}/devices; the devices that remain
multicastPush(tokens) == tokens \ InvalidTokens

\* createAndPushNotification: addDoc succeeds (stored) or the call throws
\* before it; in the native app the stored card is then pushed through
\* POST /push/send (pushed), unless the token or the request fails; either way
\* unlock returns { id } and the finally runs
UnlockFallback(t, stored, pushed) ==
    /\ task[t].pc = "un_fallback"
    /\ pushed => stored /\ IsNativePlatform(task[t].client)
    /\ devices' = IF pushed THEN multicastPush(devices) ELSE devices
    /\ LET tk == [task[t] EXCEPT !.hist[task[t].badge].fallback = @ + 1]
           res == UnlockControl(tk.hist[tk.badge].wrote, TRUE)
       IN
       IF stored
       THEN /\ notifications' = Append(notifications,
                  BadgeNotification(CurrentUser(tk.client), tk.badge, "local"))
            /\ SetTask(t, UnlockReturned(
                             [tk EXCEPT !.hist[tk.badge].stored = @ + 1],
                             res, badges))
       ELSE /\ IF FallbackErrorCaught
               THEN SetTask(t, UnlockReturned(tk, res, badges))
               ELSE SetTask(t, UnlockThrew(tk, "unknown", badges))
            /\ UNCHANGED notifications
    /\ Release(t)
    /\ UNCHANGED <<badges, clock, nEdits>>
    /\ Fault(~stored)
    /\ UNCHANGED streakVars
    /\ UNCHANGED <<challenges, leaderboard, challengeDocs, lbTimer, server, cronJobs, reminders, pageVars>>

----------------------------------------------------------------------------
(* The user's other actions while calls are running *)

\* DailyLog.handleSave: upsertDailyLog(uid, selectedDate, payload)
SaveLog(d, cigs) ==
    /\ nEdits < MaxEdits
    /\ nEdits' = nEdits + 1
    /\ logs' = upsertDailyLog(logs, d,
                  [smoke_free |-> cigs = 0, cigarettes_smoked |-> cigs])
    /\ UNCHANGED <<profile, today, zone, streak>>
    /\ UNCHANGED <<badges, notifications, clock, inFlightUnlocks, task, nFaults>>
    /\ UNCHANGED <<otherVars, pageVars>>

\* markBadgeSeen(uid, badgeId)
markBadgeSeen(uid, a) ==
    /\ nEdits < MaxEdits
    /\ nEdits' = nEdits + 1
    /\ badges' = [badges EXCEPT ![uid][a] = MarkSeenDoc(@, clock)]
    /\ clock' = clock + 1
    /\ UNCHANGED <<notifications, inFlightUnlocks, task, nFaults>>
    /\ UNCHANGED streakVars
    /\ UNCHANGED <<otherVars, pageVars>>

\* Challenges.handleBadgeClick: a badge of the list built from the records
BadgeClick(c, a) ==
    /\ badges[CurrentUser(c)][a] # NoBadge
    /\ markBadgeSeen(CurrentUser(c), a)

\* the server before it is started, on the morning of the first day
Morning == "00:00"
InitServer ==
    /\ server = [started |-> FALSE, since |-> NoDate, date |-> 0, time |-> Morning]
    /\ cronJobs = 0
    /\ reminders = {}

\* Challenge/{id}: the documents of the completion calls
ChallengeIds == {"c1", "c2"}
NoChallenge == [absent |-> TRUE]

\* no DailyLog page is open and no background writer is running
NoPage == [date |-> NoDate, entry |-> NoLog]
NoJob == [kind |-> "none"]
MaxJobs == 2         \* background writers running at the same time
Jobs == 1..MaxJobs

InitRest ==
    /\ challenges = 0
    /\ leaderboard = NoRows
    /\ devices = RegisteredTokens
    /\ challengeDocs = [id \in ChallengeIds |-> NoChallenge]
    /\ lbTimer = FALSE
    /\ InitServer
    /\ page = [c \in Clients |-> NoPage]
    /\ jobs = [j \in Jobs |-> NoJob]

Init ==
    /\ logs = [d \in Dates |-> NoLog]
    /\ profile = [quit_date |-> 0, createdAt |-> TRUE]
    /\ today = MaxDay
    /\ zone = AppZone
    /\ streak = NoStreak
    /\ InitEngine
    /\ InitRest

\* the calls run in the tabs of one user; the first call is in tabA
ClientsOf(t) == IF t = 1 THEN {"tabA"} ELSE Clients

UnlockStep(t) ==
    \/ UnlockTxGet(t)
    \/ UnlockTxCommit(t)
    \/ \E e \in StoreErrors \cup {"already-exists"} : UnlockTxFail(t, e)
    \/ \E outcome \in NotifyOutcomes : UnlockNotify(t, outcome)
    \/ \E stored, pushed \in BOOLEAN : UnlockFallback(t, stored, pushed)

TaskStep(t) ==
    \/ \E c \in ClientsOf(t), uid \in Users : CallEvaluate(t, c, uid)
    \/ EvalProfile(t)
    \/ EvalStreak(t)
    \/ EvalLogsCount(t)
    \/ EvalChallenges(t)
    \/ \E e \in StoreErrors : EvalChallengesFail(t, e)
    \/ EvalRanks(t)
    \/ \E e \in StoreErrors : EvalReadFail(t, e)
    \/ EvalIsUnlocked(t)
    \/ \E e \in StoreErrors : EvalIsUnlockedFail(t, e)
    \/ EvalCheck(t)
    \/ UnlockStep(t)

UserStep ==
    \/ \E d \in Dates, cigs \in 0..MaxCigs : SaveLog(d, cigs)
    \/ \E c \in Clients, a \in BadgeIds : BadgeClick(c, a)

Next ==
    \/ \E t \in Tasks : TaskStep(t)
    \/ UserStep

Spec == Init /\ [][Next]_vars

\* the badge service called directly: unlock and markBadgeSeen with any ids
NextApi ==
    \/ \E t \in Tasks, c \in Clients, a \in BadgeIds :
          \E uid \in Users \cup {""} : CallUnlock(t, c, uid, a)
    \/ \E t \in Tasks : UnlockStep(t)
    \/ \E uid \in Users, a \in BadgeIds : markBadgeSeen(uid, a)

SpecApi == Init /\ [][NextApi]_vars

----------------------------------------------------------------------------
(* The metric snapshot of one pass, over profiles and counters of any size *)

\* values of the smoking fields of users/{uid}; Profile.handleSubmit stores
\* numbers, a document written otherwise may lack a field
PerDayValues == {0, 20}
PackPriceValues == {0, 5}
PackSizeValues == {0, 20, 25}

SmokingFields ==
    [cigarettes_per_day_before : PerDayValues,
     cost_per_pack : PackPriceValues, cigarettes_per_pack : PackSizeValues]
      \cup [cost_per_pack : PackPriceValues, cigarettes_per_pack : PackSizeValues]
      \cup [cigarettes_per_day_before : PerDayValues,
            cigarettes_per_pack : PackSizeValues]
      \cup [cigarettes_per_day_before : PerDayValues,
            cost_per_pack : PackPriceValues]

\* leaderboards around the third place: no rows, the user alone, second and in
\* ties for the third place, fourth, and with a row that has points only
Row(p, s, e) == [points |-> p, streak |-> s, saved |-> e]
LeaderboardSamples ==
    { NoRows,
      [NoRows EXCEPT !["u1"] = Row(0, 2, 0)],
      [u1 |-> Row(8, 2, 0), u2 |-> Row(5, 2, 0), u3 |-> Row(9, 3, 0),
       u4 |-> Row(7, 1, 10)],
      [u1 |-> Row(1, 0, 0), u2 |-> Row(5, 2, 0), u3 |-> Row(9, 0, 0),
       u4 |-> Row(7, 1, 10)],
      [u1 |-> [points |-> 8], u2 |-> Row(5, 2, 0), u3 |-> Row(9, 3, 0),
       u4 |-> Row(7, 1, 10)] }

\* streaks around the thresholds of the table, longer than the date window
StreakSamples == {0, 1, 2, 3, 5, 10, 20, 29, 30, 31, 1000}

InitSnapshot ==
    /\ logs = [d \in Dates |-> NoLog]
    /\ \E f \in SmokingFields, stage \in {"", "mo1"} :
          profile = Merge([quit_date |-> 0, createdAt |-> TRUE,
                           health_stage_id |-> stage], f)
    /\ today = MaxDay
    /\ zone = AppZone
    /\ streak = NoStreak
    /\ InitEngine
    /\ challenges \in {0, 30}
    /\ leaderboard \in LeaderboardSamples
    /\ page = [c \in Clients |-> NoPage]
    /\ jobs = [j \in Jobs |-> NoJob]
    /\ devices = RegisteredTokens
    /\ challengeDocs = [id \in ChallengeIds |-> NoChallenge]
    /\ lbTimer = FALSE
    /\ InitServer

\* one call; the streak it reads is any of the samples
FirstCall == { t \in Tasks : \A u \in Tasks : t <= u }

NextSnapshot ==
    \E t \in FirstCall :
       \/ CallEvaluate(t, "tabA", CurrentUser("tabA"))
       \/ EvalProfile(t)
       \/ \E n \in StreakSamples :
             EvalStreakOf(t, [current_streak_days |-> n, streak_start_date |-> NoDate,
                              last_slip_date |-> NoDate])
       \/ EvalLogsCount(t)
       \/ EvalChallenges(t)
       \/ \E e \in StoreErrors : EvalChallengesFail(t, e)
       \/ EvalRanks(t)
       \/ \E e \in StoreErrors : EvalReadFail(t, e)

SpecSnapshot == InitSnapshot /\ [][NextSnapshot]_vars

----------------------------------------------------------------------------
(* The cached streak fields of users/{uid} and their three writers:         *)
(* DailyLog.handleSave (background recompute), Profile.handleSubmit         *)
(* (baseline) and the Dashboard's daily sync                                *)

MaxSaves == 2        \* DailyLog saves and Profile submits

\* the local calendar dates the clock can show while the UTC date is t
LocalDates(z, t) ==
    IF UtcOffset(z, t) > 0 THEN {t, t + 1}
    ELSE IF UtcOffset(z, t) < 0 THEN {t - 1, t}
    ELSE {t}

\* startOfDay(new Date(iso)): "YYYY-MM-DD" is parsed as midnight UTC; the result
\* is the local calendar day of that instant
startOfDay(z, iso) == (iso * HoursPerDay + UtcOffset(z, iso)) \div HoursPerDay

\* doc.field for a date field: null when the field is missing
DateOr(d, field) == IF field \in DOMAIN d THEN d[field] ELSE NoDate

\* Profile.computeStreakBaseline with activeDateChoice = "quit"
computeStreakBaseline(z, localToday, quit_date) ==
    LET since == IF quit_date # NoDate /\ startOfDay(z, quit_date) <= localToday
                 THEN startOfDay(z, quit_date) ELSE NoDate
    IN IF since = NoDate
       THEN [current_streak_days |-> 0, streak_start_date |-> NoDate,
             last_slip_date |-> NoDate]
       ELSE [current_streak_days |-> Max(0, localToday - since),
             streak_start_date |-> since, last_slip_date |-> NoDate]

FreeJobs == { j \in Jobs : jobs[j] = NoJob }
\* a background task is started in a free slot
StartJob(job) ==
    /\ FreeJobs # {}
    /\ jobs' = [jobs EXCEPT ![CHOOSE j \in FreeJobs : \A k \in FreeJobs : j <= k] = job]
EndJob(j) == jobs' = [jobs EXCEPT ![j] = NoJob]

\* DailyLog.loadData for the selected date: setDailyLogEntry(entry)
PageLoad(c, d) ==
    /\ page' = [page EXCEPT ![c] = [date |-> d, entry |-> logs[d]]]
    /\ UNCHANGED <<jobs, otherVars>>
    /\ UNCHANGED streakVars
    /\ UNCHANGED engineVars

\* the payload of handleSave and changedSmokeFree, from the loaded copy
SavePayload(cigs) == [smoke_free |-> cigs = 0, cigarettes_smoked |-> cigs]
changedSmokeFree(entry, payload) ==
    IF entry = NoLog THEN TRUE ELSE entry.smoke_free # payload.smoke_free

\* DailyLog.handleSave: setDailyLogEntry, upsertDailyLog, and the background
\* recompute when the loaded copy says the flag changed; the closure of the
\* recompute holds selectedDate and payload of its save
handleSave(c, cigs) ==
    /\ page[c].date # NoDate
    /\ nEdits < MaxSaves
    /\ nEdits' = nEdits + 1
    /\ LET payload == SavePayload(cigs) IN
       /\ page' = [page EXCEPT ![c].entry = payload]
       /\ logs' = upsertDailyLog(logs, page[c].date, payload)
       /\ IF changedSmokeFree(page[c].entry, payload)
          THEN StartJob([kind |-> "recompute", pc |-> "getDoc",
                         date |-> page[c].date, payload |-> payload])
          ELSE UNCHANGED jobs
    /\ UNCHANGED <<profile, today, zone, streak, otherVars>>
    /\ UNCHANGED <<badges, notifications, clock, inFlightUnlocks, task, nFaults>>

\* background recompute: userSnap = await getDoc(doc(db, "users", uid))
RecomputeGetDoc(j) ==
    /\ jobs[j] # NoJob /\ jobs[j].kind = "recompute" /\ jobs[j].pc = "getDoc"
    /\ jobs' = [jobs EXCEPT ![j] =
                  Merge(@, [pc |-> "compute",
                            quitIso |-> DateOr(profile, "quit_date")])]
    /\ UNCHANGED <<page, otherVars>>
    /\ UNCHANGED streakVars
    /\ UNCHANGED engineVars

\* background recompute: await computeStreakFromQuit(uid, quitIso, todayIso)
RecomputeCompute(j) ==
    /\ jobs[j] # NoJob /\ jobs[j].kind = "recompute" /\ jobs[j].pc = "compute"
    /\ jobs' = [jobs EXCEPT ![j] =
                  Merge(@, [pc |-> "write",
                            res |-> computeStreakFromQuit(logs, jobs[j].quitIso,
                                                          today, zone)])]
    /\ UNCHANGED <<page, otherVars>>
    /\ UNCHANGED streakVars
    /\ UNCHANGED engineVars

\* updateUserProfile(uid, data): setDoc(..., {merge: true})
updateUserProfile(data) == profile' = Merge(profile, data)

\* background recompute: await updateUserProfile(uid, {the three fields})
RecomputeWrite(j) ==
    /\ jobs[j] # NoJob /\ jobs[j].kind = "recompute" /\ jobs[j].pc = "write"
    /\ updateUserProfile(jobs[j].res)
    /\ EndJob(j)
    /\ UNCHANGED <<logs, today, zone, streak, page, otherVars>>
    /\ UNCHANGED engineVars

\* Profile.handleSubmit: await updateUserProfile(uid, {quit_date, ...}); the
\* button is disabled while a submit is running (saving)
ProfileSubmit(q) ==
    /\ \A j \in Jobs : jobs[j] = NoJob \/ jobs[j].kind # "submit"
    /\ nEdits < MaxSaves
    /\ nEdits' = nEdits + 1
    /\ updateUserProfile([quit_date |-> q])
    /\ StartJob([kind |-> "submit", pc |-> "baseline", quit_date |-> q])
    /\ UNCHANGED <<logs, today, zone, streak, page, otherVars>>
    /\ UNCHANGED <<badges, notifications, clock, inFlightUnlocks, task, nFaults>>

\* Profile.handleSubmit: await updateUserProfile(uid, computeStreakBaseline(...))
SubmitBaseline(j, localToday) ==
    /\ jobs[j] # NoJob /\ jobs[j].kind = "submit"
    /\ updateUserProfile(computeStreakBaseline(zone, localToday, jobs[j].quit_date))
    /\ EndJob(j)
    /\ UNCHANGED <<logs, today, zone, streak, page, otherVars>>
    /\ UNCHANGED engineVars

\* Dashboard streak sync effect: days from streak_start_date, written when the
\* cached current_streak_days differs
DashboardSync(localToday) ==
    /\ DateOr(profile, "streak_start_date") # NoDate
    /\ LET days == Max(0, localToday - startOfDay(zone, profile.streak_start_date))
       IN /\ ("current_streak_days" \notin DOMAIN profile
                \/ profile.current_streak_days # days)
          /\ StartJob([kind |-> "sync", pc |-> "write", days |-> days])
    /\ UNCHANGED <<page, otherVars>>
    /\ UNCHANGED streakVars
    /\ UNCHANGED engineVars

\* Dashboard: await ensureUserDocument; await updateUserProfile(id, {days})
SyncWrite(j) ==
    /\ jobs[j] # NoJob /\ jobs[j].kind = "sync"
    /\ updateUserProfile([current_streak_days |-> jobs[j].days])
    /\ EndJob(j)
    /\ UNCHANGED <<logs, today, zone, streak, page, otherVars>>
    /\ UNCHANGED engineVars

\* a new user before the profile set-up: no quit date, no cached field
InitCache ==
    /\ logs = [d \in Dates |-> NoLog]
    /\ profile = [quit_date |-> NoDate, createdAt |-> TRUE]
    /\ today = MaxDay - 1
    /\ zone \in Zones
    /\ streak = NoStreak
    /\ InitEngine
    /\ InitRest

RecomputeStep(j) ==
    \/ RecomputeGetDoc(j)
    \/ RecomputeCompute(j)
    \/ RecomputeWrite(j)

\* the Profile, Dashboard and DailyLog pages of one tab
CacheTabs == {"tabA"}

NextCache ==
    \/ \E c \in CacheTabs, d \in Dates : PageLoad(c, d)
    \/ \E c \in CacheTabs, cigs \in 0..MaxCigs : handleSave(c, cigs)
    \/ \E j \in Jobs : RecomputeStep(j)
    \/ \E q \in Dates \cup {NoDate} : ProfileSubmit(q)
    \/ \E j \in Jobs, lt \in LocalDates(zone, today) : SubmitBaseline(j, lt)
    \/ \E lt \in LocalDates(zone, today) : DashboardSync(lt)
    \/ \E j \in Jobs : SyncWrite(j)

SpecCache == InitCache /\ [][NextCache]_vars

\* the DailyLog page alone, for a user whose profile was set up yesterday
InitSaves ==
    /\ logs = [d \in Dates |-> NoLog]
    /\ profile = Merge([quit_date |-> MaxDay - 1, createdAt |-> TRUE],
                       computeStreakBaseline(AppZone, MaxDay, MaxDay - 1))
    /\ today = MaxDay
    /\ zone = AppZone
    /\ streak = NoStreak
    /\ InitEngine
    /\ InitRest

NextSaves ==
    \/ \E c \in Clients, d \in Dates : PageLoad(c, d)
    \/ \E c \in Clients, cigs \in 0..MaxCigs : handleSave(c, cigs)
    \/ \E j \in Jobs : RecomputeStep(j)

SpecSaves == InitSaves /\ [][NextSaves]_vars

----------------------------------------------------------------------------
(* Points: completeChallengeAndAwardPoints and publishLeaderboardRow of      *)
(* services/users.js, with the debounced publish of observeUserProfile       *)

MaxCalls == 3        \* completion calls and direct publish calls

\* Challenge.create of the Challenges page: { user_id, points, completed }
NewChallenge(uid, points) == [user_id |-> uid, points |-> points, completed |-> FALSE]

\* the points argument of a call: the page passes challenge.points of its list
PointsArgs == {10, 50}

\* a transaction that awards whatever the flags say
NoIdempotencyGuard(c) == FALSE

\* Idempotency guard: c.completed === true || c.awarded === true
IdempotencyGuard(c) ==
    c.completed \/ ("awarded" \in DOMAIN c /\ c.awarded)

\* pts = Number(c.points ?? points) || 0
AwardedPoints(c, points) == IF "points" \in DOMAIN c THEN c.points ELSE points

\* tx.set(ref, { field: increment(pts) }, { merge: true }) on a document
Increment(d, field, pts) ==
    IF d = NoRow THEN [points |-> pts]
    ELSE Merge(d, [points |-> IF field \in DOMAIN d THEN d[field] + pts ELSE pts])

\* completeChallengeAndAwardPoints(challengeId, points), up to runTransaction
CompleteCall(id, points) ==
    /\ nEdits < MaxCalls
    /\ nEdits' = nEdits + 1
    /\ StartJob([kind |-> "complete", pc |-> "txGet", id |-> id, points |-> points,
                 attempts |-> 1])
    /\ UNCHANGED <<page, challenges, leaderboard, devices, challengeDocs, lbTimer, server, cronJobs, reminders>>
    /\ UNCHANGED streakVars
    /\ UNCHANGED <<badges, notifications, clock, inFlightUnlocks, task, nFaults>>

\* the update function: tx.get(cRef), "Challenge not found", "Forbidden", the
\* idempotency guard; the writes are buffered until the commit
CompleteTxGet(j) ==
    /\ jobs[j] # NoJob /\ jobs[j].kind = "complete" /\ jobs[j].pc = "txGet"
    /\ LET c == challengeDocs[jobs[j].id] IN
       IF c = NoChallenge \/ c.user_id # CurrentUser("tabA")
       THEN EndJob(j)                     \* the call throws
       ELSE IF IdempotencyGuard(c)
       THEN jobs' = [jobs EXCEPT ![j] = Merge(@, [pc |-> "getDoc"])]
       ELSE jobs' = [jobs EXCEPT ![j] = Merge(@, [pc |-> "commit", snap |-> c])]
    /\ UNCHANGED <<page, otherVars>>
    /\ UNCHANGED streakVars
    /\ UNCHANGED engineVars

\* the commit: the three writes are applied together if the challenge is as it
\* was read, else the update function runs again; the profile snapshot that
\* follows the write starts the debounce timer of observeUserProfile
CompleteTxCommit(j) ==
    /\ jobs[j] # NoJob /\ jobs[j].kind = "complete" /\ jobs[j].pc = "commit"
    /\ LET id == jobs[j].id
           pts == AwardedPoints(jobs[j].snap, jobs[j].points)
       IN IF challengeDocs[id] = jobs[j].snap
          THEN /\ challengeDocs' = [challengeDocs EXCEPT ![id] =
                                       Merge(@, [completed |-> TRUE, awarded |-> TRUE])]
               /\ profile' = Merge(profile,
                                [total_points |-> IF "total_points" \in DOMAIN profile
                                                  THEN profile.total_points + pts
                                                  ELSE pts])
               /\ leaderboard' = [leaderboard EXCEPT ![CurrentUser("tabA")] =
                                     Increment(@, "points", pts)]
               /\ challenges' = challenges + 1
               /\ lbTimer' = TRUE
               /\ jobs' = [jobs EXCEPT ![j] = Merge(@, [pc |-> "getDoc"])]
          ELSE /\ jobs' = [jobs EXCEPT ![j] = [kind |-> "complete", pc |-> "txGet",
                                                id |-> id, points |-> jobs[j].points,
                                                attempts |-> jobs[j].attempts + 1]]
               /\ UNCHANGED <<challengeDocs, profile, leaderboard, challenges, lbTimer>>
    /\ UNCHANGED <<page, devices, server, cronJobs, reminders>>
    /\ UNCHANGED <<logs, today, zone, streak>>
    /\ UNCHANGED engineVars

\* uSnap = await getDoc(...); return uSnap.data()?.total_points ?? 0
CompleteReturn(j) ==
    /\ jobs[j] # NoJob /\ jobs[j].kind = "complete" /\ jobs[j].pc = "getDoc"
    /\ EndJob(j)
    /\ UNCHANGED <<page, otherVars>>
    /\ UNCHANGED streakVars
    /\ UNCHANGED engineVars

\* the row publishLeaderboardRow builds from the profile u it has read
publishedRow(u, z, utcToday, localToday) ==
    LET points == NumOr(u, "total_points", 0)
        stored == NumOr(u, "current_streak_days", 0)
        qd == DateOr(u, "quit_date")
        days == IF stored = 0 /\ qd # NoDate /\ qd <= utcToday
                THEN Max(0, localToday - startOfDay(z, qd))
                ELSE stored
        cpd == NumOr(u, "cigarettes_per_day_before", 0)
        cpp == NumOr(u, "cost_per_pack", 0)
        cppk == NumOr(u, "cigarettes_per_pack", 20)
    IN [points |-> points, streak |-> days,
        saved |-> Round(cpd * cpp * days, cppk)]

\* publishLeaderboardRow(uid): snap = await getDoc(doc(db, "users", uid))
PublishGetDoc(j, localToday) ==
    /\ jobs[j] # NoJob /\ jobs[j].kind = "publish" /\ jobs[j].pc = "getDoc"
    /\ jobs' = [jobs EXCEPT ![j] =
                  [kind |-> "publish", pc |-> "setDoc",
                   row |-> publishedRow(profile, zone, today, localToday)]]
    /\ UNCHANGED <<page, otherVars>>
    /\ UNCHANGED streakVars
    /\ UNCHANGED engineVars

\* publishLeaderboardRow(uid): await setDoc(leaderboard/{uid}, row, {merge: true})
PublishSetDoc(j) ==
    /\ jobs[j] # NoJob /\ jobs[j].kind = "publish" /\ jobs[j].pc = "setDoc"
    /\ leaderboard' = [leaderboard EXCEPT ![CurrentUser("tabA")] =
                          IF @ = NoRow THEN jobs[j].row ELSE Merge(@, jobs[j].row)]
    /\ EndJob(j)
    /\ UNCHANGED <<page, challenges, devices, challengeDocs, lbTimer, server, cronJobs, reminders>>
    /\ UNCHANGED streakVars
    /\ UNCHANGED engineVars

\* Profile.handleSubmit: await publishLeaderboardRow(uid)
PublishCall ==
    /\ nEdits < MaxCalls
    /\ nEdits' = nEdits + 1
    /\ StartJob([kind |-> "publish", pc |-> "getDoc"])
    /\ UNCHANGED <<page, otherVars>>
    /\ UNCHANGED streakVars
    /\ UNCHANGED <<badges, notifications, clock, inFlightUnlocks, task, nFaults>>

\* observeUserProfile: the timer set by the last profile snapshot fires
\* publishLeaderboardRow(uid)
TimerFires ==
    /\ lbTimer
    /\ lbTimer' = FALSE
    /\ StartJob([kind |-> "publish", pc |-> "getDoc"])
    /\ UNCHANGED <<page, challenges, leaderboard, devices, challengeDocs, server, cronJobs, reminders>>
    /\ UNCHANGED streakVars
    /\ UNCHANGED engineVars

\* a signed-up user (claimUsernameAndCreateProfile seeds both documents) with
\* challenges of the day; the first profile snapshot has set the timer
InitPoints ==
    /\ logs = [d \in Dates |-> NoLog]
    /\ profile = [quit_date |-> NoDate, createdAt |-> TRUE, total_points |-> 0]
    /\ today = MaxDay
    /\ zone = AppZone
    /\ streak = NoStreak
    /\ InitEngine
    /\ challenges = 0
    /\ leaderboard = [NoRows EXCEPT ![CurrentUser("tabA")] = Row(0, 0, 0)]
    /\ page = [c \in Clients |-> NoPage]
    /\ jobs = [j \in Jobs |-> NoJob]
    /\ devices = RegisteredTokens
    /\ \E other \in {NoChallenge, NewChallenge("u1", 20), NewChallenge("u2", 20)} :
          challengeDocs = [c1 |-> NewChallenge("u1", 10), c2 |-> other]
    /\ lbTimer = TRUE
    /\ InitServer

NextPoints ==
    \/ \E id \in ChallengeIds, points \in PointsArgs : CompleteCall(id, points)
    \/ \E j \in Jobs : \/ CompleteTxGet(j)
                       \/ CompleteTxCommit(j)
                       \/ CompleteReturn(j)
                       \/ PublishSetDoc(j)
                       \/ \E lt \in LocalDates(zone, today) : PublishGetDoc(j, lt)
    \/ PublishCall
    \/ TimerFires

SpecPoints == InitPoints /\ [][NextPoints]_vars

----------------------------------------------------------------------------
(* The daily reminders of server/push.js: scheduleDailyPushJobs, called once  *)
(* when server/index.js starts                                              *)

\* the times of the two cron expressions, Europe/Athens
LogReminderTime == "20:30"
ChallengeReminderTime == "20:35"

\* the cron.schedule calls the body of scheduleDailyPushJobs makes: it defines
\* todayISOAthens and sendToUser and returns; both cron.schedule calls are
\* inside the body of sendToUser, after its token query
ScheduledAtStart == 0
\* the pairs of tasks one completed call of sendToUser registers
ScheduledBySend == 1

\* users/{uid}/notifications/{type}_{date}
ReminderId(uid, type, date) == [uid |-> uid, type |-> type, date |-> date]

\* fdb.collection("users").doc(uid).collection("dailyLogs").doc(iso).get()
HasLog(uid, iso) == uid = CurrentUser("tabA") /\ logs[iso] # NoLog

\* the Challenge query of the 20:35 task: due today and not completed
HasOpenChallenge(uid, iso) ==
    \E id \in ChallengeIds :
       /\ challengeDocs[id] # NoChallenge
       /\ challengeDocs[id].user_id = uid
       /\ "due_date" \in DOMAIN challengeDocs[id]
       /\ challengeDocs[id].due_date = iso
       /\ ~challengeDocs[id].completed

\* the users a task started at time t on date iso calls sendToUser for
Recipients(t, iso) ==
    IF t = LogReminderTime THEN { u \in Users : ~HasLog(u, iso) }
    ELSE IF t = ChallengeReminderTime THEN { u \in Users : ~HasOpenChallenge(u, iso) }
    ELSE {}

\* the calls of sendToUser that get past `if (exists.exists) return`
NewReminders(t, iso) ==
    LET type == IF t = LogReminderTime THEN "daily_log" ELSE "daily_challenges"
    IN { ReminderId(u, type, iso) : u \in Recipients(t, iso) } \ reminders

\* server/index.js: scheduleDailyPushJobs(admin, fdb)
ServerStart ==
    /\ ~server.started
    /\ server' = [server EXCEPT !.started = TRUE,
                                 !.since = IF server.time = Morning
                                           THEN server.date ELSE server.date + 1]
    /\ cronJobs' = cronJobs + ScheduledAtStart
    /\ UNCHANGED <<reminders, challenges, leaderboard, devices, challengeDocs, lbTimer, pageVars>>
    /\ UNCHANGED streakVars
    /\ UNCHANGED engineVars

\* the Athens clock reaches the next of 20:30, 20:35 and midnight; the tasks
\* registered for that time run: sendToUser for each recipient
ClockReaches ==
    /\ LET t == IF server.time = Morning THEN LogReminderTime
                ELSE IF server.time = LogReminderTime THEN ChallengeReminderTime
                ELSE Morning
           iso == IF t = Morning THEN server.date + 1 ELSE server.date
           sent == IF cronJobs > 0 /\ server.started
                   THEN NewReminders(t, iso) ELSE {}
       IN /\ iso \in Dates
          /\ server' = [server EXCEPT !.date = iso, !.time = t]
          /\ reminders' = reminders \cup sent
          /\ cronJobs' = cronJobs + ScheduledBySend * Cardinality(sent)
    /\ UNCHANGED <<challenges, leaderboard, devices, challengeDocs, lbTimer, pageVars>>
    /\ UNCHANGED streakVars
    /\ UNCHANGED engineVars

\* the user saves the log of the Athens date in the app
ReminderDaySave(cigs) ==
    /\ logs' = upsertDailyLog(logs, server.date, SavePayload(cigs))
    /\ UNCHANGED <<profile, today, zone, streak>>
    /\ UNCHANGED engineVars
    /\ UNCHANGED <<otherVars, pageVars>>

InitCron ==
    /\ logs = [d \in Dates |-> NoLog]
    /\ profile = [quit_date |-> 0, createdAt |-> TRUE]
    /\ today = 0
    /\ zone = AppZone
    /\ streak = NoStreak
    /\ InitEngine
    /\ challenges = 0
    /\ leaderboard = NoRows
    /\ page = [c \in Clients |-> NoPage]
    /\ jobs = [j \in Jobs |-> NoJob]
    /\ devices = RegisteredTokens
    /\ \E due \in Dates, owner \in Users :
          challengeDocs = [c1 |-> Merge(NewChallenge(owner, 10), [due_date |-> due]),
                           c2 |-> NoChallenge]
    /\ lbTimer = FALSE
    /\ InitServer

NextCron ==
    \/ ServerStart
    \/ ClockReaches
    \/ \E cigs \in 0..MaxCigs : ReminderDaySave(cigs)

SpecCron == InitCron /\ [][NextCron]_vars

----------------------------------------------------------------------------
(* The streak calculator applied to a log history that is being edited *)

InitStreak ==
    /\ logs = [d \in Dates |-> NoLog]
    /\ profile \in [quit_date : Dates \cup {NoDate}, createdAt : {TRUE}]
    /\ today \in Dates
    /\ zone \in Zones
    /\ streak = NoStreak
    /\ InitEngine
    /\ InitRest

StreakEdit(d, data) ==
    /\ streak = NoStreak
    /\ (logs[d] = NoLog => Cardinality(LogDates(logs)) < MaxLogs)
    /\ logs' = upsertDailyLog(logs, d, data)
    /\ UNCHANGED <<profile, today, zone, streak>>
    /\ UNCHANGED engineVars
    /\ UNCHANGED <<otherVars, pageVars>>

StreakCall ==
    /\ streak = NoStreak
    /\ streak' = computeStreakFromQuit(logs, profile.quit_date, today, zone)
    /\ UNCHANGED <<logs, profile, today, zone>>
    /\ UNCHANGED engineVars
    /\ UNCHANGED <<otherVars, pageVars>>

StreakReturn ==
    /\ streak # NoStreak
    /\ streak' = NoStreak
    /\ UNCHANGED <<logs, profile, today, zone>>
    /\ UNCHANGED engineVars
    /\ UNCHANGED <<otherVars, pageVars>>

\* the same call made again on the following day, the log store as it was
StreakNextDay ==
    /\ streak # NoStreak
    /\ today < MaxDay
    /\ today' = today + 1
    /\ streak' = computeStreakFromQuit(logs, profile.quit_date, today + 1, zone)
    /\ UNCHANGED <<logs, profile, zone>>
    /\ UNCHANGED engineVars
    /\ UNCHANGED <<otherVars, pageVars>>

NextStreak ==
    \/ \E d \in Dates, data \in LogInputs : StreakEdit(d, data)
    \/ StreakCall
    \/ StreakReturn
    \/ StreakNextDay

SpecStreak == InitStreak /\ [][NextStreak]_vars

----------------------------------------------------------------------------
(* Properties of the unlock transaction and the evaluation pass *)

\* the unlock calls made for badge a of user u, and those whose transaction
\* created the record
CallsFor(u, a) ==
    { t \in Tasks : task[t].uid = u /\ task[t].hist[a].result # "none" }
Winners(u, a) == { t \in CallsFor(u, a) : task[t].hist[a].wrote }

\* the badge_unlocked notifications stored for badge a in users/{u}/notifications
NotificationsFor(u, a) ==
    { k \in 1..Len(notifications) :
        /\ notifications[k].uid = u
        /\ notifications[k].type = "badge_unlocked"
        /\ notifications[k].badgeId = a }

CondIndex(a) == CHOOSE k \in 1..NumCond : conditions[k].id = a

\* C1 - Idempotent unlock: overlapping unlock(u, a) calls, in one tab or in
\* two, leave one record; at most one call ever sees wrote = true, only that
\* call reaches the notification step, and once the calls have ended without
\* a store error exactly one has won and every other one was deduped or
\* skipped as in flight.
C1_IdempotentUnlock ==
    \A u \in Users, a \in BadgeIds :
      LET calls == CallsFor(u, a)
          winners == Winners(u, a)
      IN /\ Cardinality(winners) <= 1
         /\ \A t \in winners : isUnlocked(badges, u, a)
         /\ \A t \in calls \ winners : task[t].hist[a].notify = 0
                                        /\ task[t].hist[a].fallback = 0
         /\ ( /\ calls # {}
              /\ \A t \in calls : task[t].hist[a].result \notin {"running", "threw"} )
            => /\ isUnlocked(badges, u, a)
               /\ Cardinality(winners) = 1
               /\ \A t \in winners : /\ task[t].hist[a].result = "unlocked"
                                     /\ task[t].hist[a].notify = 1
               /\ \A t \in calls \ winners :
                     task[t].hist[a].result \in {"deduped", "inflight"}

\* two calls for one badge have ended, one unlocked it and one was deduped,
\* and two calls where the second was skipped by the in-flight guard
C1_Witness ==
    \E a \in BadgeIds :
       /\ task[1].hist[a].result = "unlocked"
       /\ task[2].hist[a].result = "deduped"
       /\ task[2].client # task[1].client

\* C2 - Sole writer path: a users/{u}/badges/{a} record exists if and only if
\* an unlock transaction for (u, a) committed; markBadgeSeen creates none.
C2_SoleWriterPath ==
    \A u \in Users, a \in BadgeIds :
       isUnlocked(badges, u, a) <=> Winners(u, a) # {}

\* C3 - Unlock is permanent and append-once: a record that exists stays, and
\* no step (unlock, markBadgeSeen, evaluate, a log save) changes its unlockedAt.
C3_PermanentAppendOnce ==
    [][ \A u \in Users, a \in BadgeIds :
          isUnlocked(badges, u, a)
            => /\ isUnlocked(badges', u, a)
               /\ badges'[u][a].unlockedAt = badges[u][a].unlockedAt ]_vars

\* a pass that finds streak1 unlocked although a slip saved for today has
\* made its predicate false again
C3_Witness ==
    \E t \in Tasks :
       /\ task[t].pc = "ev_check" /\ task[t].i = CondIndex("streak1")
       /\ task[t].unl /\ ~check(conditions[task[t].i], task[t].m)
       /\ logs[today] # NoLog /\ ~logs[today].smoke_free
       /\ badges[task[t].uid]["streak1"].unlockedAt # NoTs

\* C4 - Exactly-once unlock event: an unlock call that created the record and
\* has returned left exactly one badge_unlocked notification for the badge,
\* server route and local fallback counted together.  A call that left none
\* had both paths fail (the case of C6); stated here is the clause that one
\* committed unlock never leaves two notification records.
C4_ExactlyOnceEvent ==
    \A t \in Tasks, a \in BadgeIds :
       ( task[t].hist[a].wrote /\ task[t].hist[a].result = "unlocked" )
         => /\ task[t].hist[a].stored <= 1
            /\ Cardinality(NotificationsFor(CurrentUser(task[t].client), a)) <= 1

\* C5 - No notification on dedup: a call that returned deduped or skipped has
\* invoked neither notifyBadgeUnlocked nor createAndPushNotification.
C5_NoNotificationOnDedup ==
    \A t \in Tasks, a \in BadgeIds :
       task[t].hist[a].result \in {"deduped", "inflight", "missing"}
         => /\ task[t].hist[a].notify = 0
            /\ task[t].hist[a].fallback = 0
            /\ task[t].hist[a].stored = 0

\* a call was deduped by its transaction while the winner's notification exists
C5_Witness ==
    \E t \in Tasks, a \in BadgeIds :
       /\ task[t].hist[a].result = "deduped"
       /\ NotificationsFor(task[t].uid, a) # {}

\* a committed unlock call has ended with the server route and the local
\* fallback both failed
NotifyFailed(t, a) ==
    /\ task[t].hist[a].wrote
    /\ task[t].hist[a].result # "running"
    /\ task[t].hist[a].stored = 0

\* C6 - Notification failure is isolated: when route and fallback both fail
\* after the commit, the record stays, unlock returns normally after one
\* fallback attempt, and the pass goes on to the next condition.
C6_NotificationFailureIsolated ==
    \A t \in Tasks, a \in BadgeIds :
       NotifyFailed(t, a)
         => /\ isUnlocked(badges, task[t].uid, a)
            /\ task[t].hist[a].result = "unlocked"
            /\ task[t].hist[a].notify = 1
            /\ task[t].hist[a].fallback = 1
            /\ task[t].threw = "none"
            /\ task[t].i > CondIndex(a)
            /\ task[t].pc = "done" => a \in Range(task[t].ret)

\* both notification paths failed for the first badge and the pass has gone
\* on to unlock the next one and returned
C6_Witness ==
    \E t \in Tasks :
       /\ NotifyFailed(t, "welcome")
       /\ task[t].hist["streak1"].wrote
       /\ task[t].pc = "done" /\ task[t].i = NumCond + 1

\* C7 - evaluate returns only what this call newly unlocked: every id of the
\* returned list is one whose record this call's own transaction created.
C7_ReturnsOnlyOwnUnlocks ==
    \A t \in Tasks :
       task[t].pc = "done"
         => \A a \in Range(task[t].ret) : task[t].hist[a].wrote

\* C8 - No lost unlock: every id of the returned list has a record in the
\* store at the moment the call returns.
C8_NoLostUnlock ==
    \A t \in Tasks : task[t].pc = "done" => task[t].missing = {}

\* the documents outside users/{u}/badges and users/{u}/notifications that a
\* step leaves as they are: the daily log, the profile, the leaderboard, the
\* challenges, the reminders and the badges of every other user
OutsideUnchanged(u) ==
    /\ logs' = logs /\ profile' = profile
    /\ leaderboard' = leaderboard
    /\ challenges' = challenges /\ challengeDocs' = challengeDocs
    /\ reminders' = reminders
    /\ \A v \in Users \ {u} : badges'[v] = badges[v]
    /\ Len(notifications') >= Len(notifications)
    /\ \A k \in 1..Len(notifications') :
          IF k <= Len(notifications) THEN notifications'[k] = notifications[k]
          ELSE notifications'[k].uid = u

\* the write footprint as first stated: badge and notification records only
C21_WritesOnlyBadgesAndNotifications ==
    [][ \A t \in Tasks :
          ( task'[t] # task[t] /\ task'[t].kind = "evaluate" )
            => OutsideUnchanged(task'[t].uid) /\ devices' = devices ]_vars

\* C21 - Write footprint: a step of evaluateAndUnlockBadges(u), the call of
\* computeStreakFromQuit included, writes only users/{u}/badges and
\* users/{u}/notifications records and, when the fallback notification is
\* pushed from the native app, deletes push tokens that FCM rejected from
\* users/{u}/devices; the daily logs, the profile, the leaderboard rows, the
\* challenges and every other user's documents are unchanged.
C21_WriteFootprint ==
    [][ \A t \in Tasks :
          ( task'[t] # task[t] /\ task'[t].kind = "evaluate" )
            => /\ OutsideUnchanged(task'[t].uid)
               /\ devices' \subseteq devices
               /\ devices \ devices' \subseteq InvalidTokens ]_vars

\* a pass has unlocked a badge through the fallback, the card is stored, the
\* rejected token is gone and the working one is still registered
C21_Witness ==
    \E t \in Tasks, a \in BadgeIds :
       /\ task[t].kind = "evaluate" /\ task[t].hist[a].wrote
       /\ task[t].hist[a].fallback = 1
       /\ NotificationsFor(task[t].uid, a) # {}
       /\ devices = RegisteredTokens \ InvalidTokens
       /\ devices # {}

----------------------------------------------------------------------------
(* Properties of the streak calculator *)

IsSlip(entry) ==
    entry # NoLog /\ (entry.smoke_free = FALSE \/ entry.cigarettes_smoked > 0)

\* the latest slip in [q, t], or NoDate
LatestSlip(L, q, t) ==
    LET S == { d \in DOMAIN L : d >= q /\ d <= t /\ IsSlip(L[d]) }
    IN IF S = {} THEN NoDate ELSE CHOOSE d \in S : \A e \in S : e <= d

\* C9 - Streak derivation with retroactive slips: for q <= t and latest slip
\* s in [q, t] the result is last_slip_date = s, streak_start_date = s + 1 and
\* current_streak_days = max(0, t - (s + 1)); without a slip it is start = q
\* and days = t - q; in every time zone.
C9_StreakDerivation ==
    ( streak # NoStreak /\ profile.quit_date # NoDate /\ profile.quit_date <= today )
      => LET s == LatestSlip(logs, profile.quit_date, today)
         IN IF s = NoDate
            THEN streak = [current_streak_days |-> today - profile.quit_date,
                           streak_start_date |-> profile.quit_date,
                           last_slip_date |-> NoDate]
            ELSE streak = [current_streak_days |-> Max(0, today - (s + 1)),
                           streak_start_date |-> s + 1,
                           last_slip_date |-> s]

\* C10 - Out-of-range slips are ignored: a write of a log entry dated after
\* todayIso or before quitIso leaves the result of computeStreakFromQuit as
\* it was.
C10_OutOfRangeIgnored ==
    [][ \A d \in Dates :
          ( /\ d > today \/ (profile.quit_date # NoDate /\ d < profile.quit_date)
            /\ \A e \in Dates \ {d} : logs'[e] = logs[e]
            /\ profile' = profile /\ today' = today /\ zone' = zone )
          => computeStreakFromQuit(logs', profile.quit_date, today, zone)
               = computeStreakFromQuit(logs, profile.quit_date, today, zone) ]_vars

\* a result computed with a slip logged after today and one before the quit
\* date: neither is the last slip
C10_Witness ==
    /\ streak # NoStreak
    /\ profile.quit_date # NoDate
    /\ \E d \in Dates : d > today /\ IsSlip(logs[d])
    /\ \E d \in Dates : d < profile.quit_date /\ IsSlip(logs[d])
    /\ streak.last_slip_date = NoDate
    /\ streak.current_streak_days > 0

\* C11 - Streak monotonicity under no new slips: with the log store unchanged,
\* the call for day t + 1 returns current_streak_days one greater than the
\* call for day t.  Stated for the histories where the derivation of C9 itself
\* gives t - start and t + 1 - start: the quit date is on or before t and no
\* slip is dated t or t + 1.
C11_StreakMonotone ==
    [][ ( /\ streak # NoStreak /\ streak' # NoStreak
          /\ today' = today + 1
          /\ logs' = logs /\ profile' = profile /\ zone' = zone
          /\ profile.quit_date # NoDate /\ profile.quit_date <= today
          /\ ~IsSlip(logs[today]) /\ ~IsSlip(logs[today + 1]) )
        => streak'.current_streak_days = streak.current_streak_days + 1 ]_vars

\* C15 - Log normalization on write: every entry stored by upsertDailyLog,
\* whatever data it was given, has smoke_free = (cigarettes_smoked = 0).
C15_NormalizedOnWrite ==
    \A d \in LogDates(logs) :
       logs[d].smoke_free = (logs[d].cigarettes_smoked = 0)

----------------------------------------------------------------------------
(* Properties of the evaluation pass under store errors *)

\* C18 - Auth loss mid-evaluation: a pass ended by permission-denied, in a
\* snapshot read, in isUnlocked or in unlock, returns an empty list whatever
\* it had unlocked before.
C18_AuthLossReturnsEmpty ==
    \A t \in Tasks :
       ( task[t].kind = "evaluate" /\ task[t].pc = "done"
         /\ task[t].err = "permission-denied" )
         => task[t].ret = <<>>

\* C19 - Transient read errors propagate: a pass whose snapshot read failed
\* with an error other than permission-denied rejects; it does not return a
\* list.
C19_ReadErrorsPropagate ==
    \A t \in Tasks :
       ( task[t].kind = "evaluate" /\ task[t].pc = "done"
         /\ task[t].err \notin {"none", "permission-denied"} )
         => task[t].threw # "none"

\* C20 - Retrying evaluate is safe: a call started after another call for the
\* same user went through the whole table and returned, with no log save or
\* click since, returns an empty list and makes no unlock call that writes a
\* record or stores a notification.
C20_RetryIsSafe ==
    \A t \in Tasks :
       ( task[t].kind = "evaluate" /\ task[t].pc = "done"
         /\ task[t].prior # {} /\ nEdits = 0 )
         => /\ task[t].ret = <<>>
            /\ \A a \in BadgeIds : /\ ~task[t].hist[a].wrote
                                    /\ task[t].hist[a].stored = 0

----------------------------------------------------------------------------
(* Properties of the metric snapshot *)

\* a field of the profile that is missing, zero or negative
NonPositive(prof, field) == field \notin DOMAIN prof \/ prof[field] <= 0

\* the snapshot of a call holds the savings once the streak has been read
HasSavings(t) ==
    task[t].pc \in {"ev_logsCount", "ev_challenges", "ev_ranks", "ev_isUnlocked"}

\* C16 - Savings zero-guard: computeSavingsEuros gives 0 when
\* cigarettes_per_pack, cost_per_pack or cigarettes_per_day_before is missing,
\* zero or negative, and round(streakDays * (per day / per pack) * cost)
\* otherwise.
C16_SavingsZeroGuard ==
    \A t \in Tasks :
       HasSavings(t)
         => LET prof == task[t].prof IN
            task[t].m.savings =
              IF \/ NonPositive(prof, "cigarettes_per_pack")
                 \/ NonPositive(prof, "cost_per_pack")
                 \/ NonPositive(prof, "cigarettes_per_day_before")
              THEN 0
              ELSE Round(task[t].m.streakDays * prof.cigarettes_per_day_before
                           * prof.cost_per_pack,
                         prof.cigarettes_per_pack)

\* the snapshot of a call is complete: the loop over the table is next
SnapshotDone(t) == task[t].pc = "ev_isUnlocked" /\ task[t].i = 1

\* C17 - Monotone streak thresholds: over the snapshot of a pass, a true
\* streak predicate makes every streak predicate of a smaller threshold true,
\* and no badge id appears twice in the condition table.
C17_MonotoneThresholds ==
    /\ \A j, k \in 1..Len(conditions) :
          conditions[j].id = conditions[k].id => j = k
    /\ \A t \in Tasks :
          SnapshotDone(t)
            => \A j, k \in 1..Len(conditions) :
                  ( /\ conditions[j].kind = "streak" /\ conditions[k].kind = "streak"
                    /\ conditions[k].n < conditions[j].n
                    /\ check(conditions[j], task[t].m) )
                  => check(conditions[k], task[t].m)

\* a snapshot with a streak of 30 days or more: streak30 and streak20 hold,
\* streak50 does not
C17_Witness ==
    \E t \in Tasks :
       /\ SnapshotDone(t)
       /\ task[t].m.streakDays >= 30
       /\ \E j, k \in 1..Len(conditions) :
             /\ conditions[j].id = "streak30" /\ check(conditions[j], task[t].m)
             /\ conditions[k].id = "streak50" /\ ~check(conditions[k], task[t].m)

\* C27 - Health badges follow the canonical streak: over the snapshot of a
\* pass, the predicate of health, health2 or health3 is true only if the
\* streakDays of that pass is at least the start day of the milestone (14, 30,
\* 180); a stage cached on the profile does not make it true.
C27_HealthFollowsStreak ==
    \A t \in Tasks :
       SnapshotDone(t)
         => \A k \in 1..Len(conditions) :
               ( conditions[k].kind = "health" /\ check(conditions[k], task[t].m) )
                 => task[t].m.streakDays >= HealthStageStart(conditions[k].n)

\* the rows other than uid's that an ordered query returns with a value
\* greater than uid's, and with a value at least uid's
RowsAbove(LB, field, uid) ==
    { b \in DOMAIN LB \ {uid} :
        HasField(LB, b, field) /\ LB[b][field] > LB[uid][field] }
RowsNotBelow(LB, field, uid) ==
    { b \in DOMAIN LB \ {uid} :
        HasField(LB, b, field) /\ LB[b][field] >= LB[uid][field] }

\* rank r is the place of uid among the first three rows by field
IsTop3Rank(LB, field, uid, r) ==
    IF r = NoRank
    THEN \/ ~HasField(LB, uid, field)
         \/ Cardinality(RowsNotBelow(LB, field, uid)) >= 3
    ELSE /\ r \in 1..3
         /\ HasField(LB, uid, field)
         /\ Cardinality(RowsAbove(LB, field, uid)) <= r - 1
         /\ Cardinality(RowsNotBelow(LB, field, uid)) >= r - 1

\* C23 - Top-3 rank: the three ranks of a snapshot are the 1-based places of
\* the user among the first three leaderboard rows in descending order of
\* points, streak and saved, null when the user is not among them; at most
\* one of leader_<field>_1, _2, _3 holds for each field.
C23_Top3Rank ==
    \A t \in Tasks :
       SnapshotDone(t)
         => /\ IsTop3Rank(leaderboard, "points", task[t].uid, task[t].m.pointsRank)
            /\ IsTop3Rank(leaderboard, "streak", task[t].uid, task[t].m.streakRank)
            /\ IsTop3Rank(leaderboard, "saved", task[t].uid, task[t].m.savedRank)
            /\ \A kind \in {"pointsRank", "streakRank", "savedRank"} :
                  Cardinality({ k \in 1..Len(conditions) :
                                  /\ conditions[k].kind = kind
                                  /\ check(conditions[k], task[t].m) }) <= 1

\* a snapshot where the user is second by points, third by streak behind a
\* row with the same value, and not among the first three by saved
C23_Witness ==
    \E t \in Tasks :
       /\ SnapshotDone(t)
       /\ task[t].m.pointsRank = 2
       /\ task[t].m.streakRank = 3
       /\ task[t].m.savedRank = NoRank
       /\ \E b \in DOMAIN leaderboard \ {task[t].uid} :
             leaderboard[b].streak = leaderboard[task[t].uid].streak
       /\ HasField(leaderboard, task[t].uid, "saved")

----------------------------------------------------------------------------
(* Properties of the cached streak fields *)

NoWriteInProgress == \A j \in Jobs : jobs[j] = NoJob

\* C12 - current_streak_days is never negative: the value returned by
\* computeStreakFromQuit to the background recompute, the value the Dashboard
\* sync is about to write and the value stored in users/{uid} are all >= 0.
C12_StreakNeverNegative ==
    /\ "current_streak_days" \in DOMAIN profile => profile.current_streak_days >= 0
    /\ \A j \in Jobs :
          /\ (jobs[j] # NoJob /\ jobs[j].kind = "recompute" /\ jobs[j].pc = "write")
                => jobs[j].res.current_streak_days >= 0
          /\ (jobs[j] # NoJob /\ jobs[j].kind = "sync") => jobs[j].days >= 0

\* a recompute whose streak starts after today (the last slip is today, or the
\* quit date is still to come) is about to write 0 over a stored value
C12_Witness ==
    /\ "current_streak_days" \in DOMAIN profile
    /\ \E j \in Jobs :
          /\ jobs[j] # NoJob /\ jobs[j].kind = "recompute" /\ jobs[j].pc = "write"
          /\ jobs[j].res.streak_start_date > today
          /\ jobs[j].res.current_streak_days = 0

\* the cached fields of document p agree with the log L: last_slip_date, if
\* present, is the latest slip in [quit date, t] and streak_start_date is the
\* day after it, or the quit date when there is no slip
CacheAgrees(p, L, t) ==
    LET q == DateOr(p, "quit_date")
        s == IF q = NoDate THEN NoDate ELSE LatestSlip(L, q, t)
    IN /\ DateOr(p, "last_slip_date") # NoDate => p.last_slip_date = s
       /\ "streak_start_date" \in DOMAIN p
            => p.streak_start_date = IF s = NoDate THEN q ELSE s + 1

\* C13 - Cached streak invariant on the profile: when no profile write is in
\* progress, last_slip_date, if present, is the latest slip on or after the
\* quit date and streak_start_date is the day after it (the quit date without
\* a slip).  Stated for the step the claim names, the end of
\* Profile.handleSubmit with no other write running, for a quit date that is
\* not in the future and a process whose local time is UTC, where the date
\* conversions are exact.
C13_CachedStreakInvariant ==
    [][ \A j \in Jobs :
          ( /\ jobs[j] # NoJob /\ jobs[j].kind = "submit"
            /\ \A k \in Jobs \ {j} : jobs[k] = NoJob
            /\ \A k \in Jobs : jobs'[k] = NoJob
            /\ zone.std = 0 /\ zone.dstDay = NoDst
            /\ DateOr(profile', "quit_date") <= today )
          => CacheAgrees(profile', logs', today') ]_vars

\* C14 - Recompute on flip: once the background recomputes started by the
\* DailyLog saves (from one tab or two) have finished, the cached
\* current_streak_days, streak_start_date and last_slip_date are those of
\* computeStreakFromQuit over the log as it is now.
C14_RecomputeOnFlip ==
    NoWriteInProgress
      => LET st == computeStreakFromQuit(logs, DateOr(profile, "quit_date"),
                                         today, zone)
         IN /\ profile.current_streak_days = st.current_streak_days
            /\ profile.streak_start_date = st.streak_start_date
            /\ profile.last_slip_date = st.last_slip_date

\* C22 - Evaluation date is the caller's local day: the recompute started by
\* a save of a slip for the user's current local date, the quit date on or
\* before it and the entry still in the log, returns that date as
\* last_slip_date and a streak of 0 days, at any time of day and in any zone.
C22_EvaluationDateIsLocalDay ==
    [][ \A j \in Jobs :
          ( /\ jobs[j] # NoJob /\ jobs[j].kind = "recompute"
            /\ jobs[j].pc = "compute"
            /\ jobs'[j] # NoJob /\ jobs'[j].pc = "write"
            /\ jobs[j].date \in LocalDates(zone, today)
            /\ ~jobs[j].payload.smoke_free
            /\ IsSlip(logs[jobs[j].date])
            /\ jobs[j].quitIso # NoDate /\ jobs[j].quitIso <= jobs[j].date )
          => /\ jobs'[j].res.last_slip_date = jobs[j].date
             /\ jobs'[j].res.current_streak_days = 0 ]_vars

----------------------------------------------------------------------------
(* Properties of the points and the leaderboard row *)

\* the sum of the points of the completed challenges of uid
RECURSIVE SumPoints(_, _)
SumPoints(ids, uid) ==
    IF ids = {} THEN 0
    ELSE LET id == CHOOSE x \in ids : TRUE
             c == challengeDocs[id]
         IN (IF c # NoChallenge /\ c.user_id = uid /\ c.completed
             THEN c.points ELSE 0) + SumPoints(ids \ {id}, uid)

RowPoints(LB, uid) == IF HasField(LB, uid, "points") THEN LB[uid].points ELSE 0

\* C24 - Challenge completion awards once: total_points is the sum of the
\* points of the user's completed challenges, whatever number of calls were
\* made and however they overlap, and every step of a call that changes
\* total_points, the challenge or the row's points completes one challenge
\* of the user and adds its points to users/{uid}.total_points and to
\* leaderboard/{uid}.points in that one step.
C24_AwardsOnce ==
    [][ /\ profile'.total_points = SumPoints(ChallengeIds, "u1")'
        /\ \A j \in Jobs :
              ( /\ jobs[j] # NoJob /\ jobs[j].kind = "complete"
                /\ jobs'[j] # jobs[j]
                /\ \/ profile' # profile
                   \/ challengeDocs' # challengeDocs
                   \/ leaderboard' # leaderboard )
              => LET c == challengeDocs[jobs[j].id] IN
                 /\ c # NoChallenge /\ c.user_id = "u1" /\ ~c.completed
                 /\ challengeDocs'[jobs[j].id].completed
                 /\ \A id \in ChallengeIds \ {jobs[j].id} :
                       challengeDocs'[id] = challengeDocs[id]
                 /\ profile'.total_points = profile.total_points + c.points
                 /\ RowPoints(leaderboard', "u1")
                      = RowPoints(leaderboard, "u1") + c.points ]_vars

\* two calls for one challenge have overlapped and both read it as open; the
\* second one ran its update function again and is about to return: the 10
\* points are in the total once
C24_Witness ==
    /\ challengeDocs["c1"].completed
    /\ profile.total_points = 10
    /\ \E j \in Jobs : /\ jobs[j] # NoJob /\ jobs[j].kind = "complete"
                       /\ jobs[j].id = "c1" /\ jobs[j].pc = "getDoc"
                       /\ jobs[j].attempts = 2

\* no call of users.js is running and no publish is scheduled
PointsQuiet == lbTimer = FALSE /\ \A j \in Jobs : jobs[j] = NoJob

\* C28 - Leaderboard points stay in sync with the profile: whenever no
\* completion or publish call is running and none is scheduled,
\* leaderboard/{uid}.points equals users/{uid}.total_points.
C28_PointsInSync ==
    PointsQuiet => RowPoints(leaderboard, "u1") = profile.total_points

----------------------------------------------------------------------------
(* Properties of the daily reminders *)

\* the server was started before 20:30 of the Athens date
StartedBeforeReminders ==
    server.started /\ server.since # NoDate /\ server.since <= server.date

\* C25 - Daily reminders: with scheduleDailyPushJobs called at server start,
\* once 20:30 Europe/Athens has passed every user without a daily log for the
\* date has its daily_log notification, and once 20:35 has passed every user
\* without an open challenge due that day has its daily_challenges
\* notification; the record's id is {type}_{date}, one per type and date.
C25_DailyReminders ==
    StartedBeforeReminders
      => /\ server.time \in {LogReminderTime, ChallengeReminderTime}
            => \A u \in Users :
                  ~HasLog(u, server.date)
                    => ReminderId(u, "daily_log", server.date) \in reminders
         /\ server.time = ChallengeReminderTime
            => \A u \in Users :
                  ~HasOpenChallenge(u, server.date)
                    => ReminderId(u, "daily_challenges", server.date) \in reminders

----------------------------------------------------------------------------
(* Properties of the loop over the table when a condition fails *)

\* a pass that returned from the end of the loop or from its catch, after
\* at least one iteration ended with an error other than a permission error
FailedPass(t) ==
    /\ task[t].kind = "evaluate"
    /\ task[t].pc = "done"
    /\ task[t].failed # {}

\* C30 - Per-condition error isolation: when isUnlocked or unlock fails for a
\* condition with an error that is not a permission error, the pass goes on
\* through every later condition (unless a later permission error ends it),
\* the failed id is not in the returned list, and the list holds the other
\* newly unlocked ids in table order without duplicates.
C30_ErrorIsolation ==
    \A t \in Tasks :
       FailedPass(t)
         => /\ task[t].err = "none" => task[t].i = NumCond + 1
            /\ task[t].failed \cap Range(task[t].ret) = {}
            /\ \A j, k \in 1..Len(task[t].ret) :
                  j < k => CondIndex(task[t].ret[j]) < CondIndex(task[t].ret[k])
            /\ \A a \in BadgeIds :
                  ( /\ task[t].hist[a].result = "unlocked"
                    /\ a \notin task[t].failed )
                  => a \in Range(task[t].ret)

\* a pass whose first condition failed and which unlocked a later one
C30_Witness ==
    \E t \in Tasks :
       /\ FailedPass(t)
       /\ task[t].err = "none"
       /\ \E a \in task[t].failed, k \in 1..Len(task[t].ret) :
             /\ CondIndex(a) < CondIndex(task[t].ret[k])
             /\ task[t].hist[task[t].ret[k]].wrote

----------------------------------------------------------------------------
(* Properties of the in-flight guard *)

\* the unlock calls of client c for badge a between the insertion into the
\* Set and their completion
InProgress(c, a) ==
    { t \in Tasks : /\ task[t].client = c
                    /\ task[t].badge = a
                    /\ task[t].pc \in {"un_tx", "un_commit", "un_notify", "un_fallback"} }

\* C29 - The in-flight guard is always released: a badge id is in
\* inFlightUnlocks exactly while one unlock call for it is between its guard
\* insertion and its completion; once every unlock call has returned or
\* thrown the set is empty.
C29_GuardReleased ==
    \A c \in Clients, a \in BadgeIds :
       /\ a \in inFlightUnlocks[c] <=> InProgress(c, a) # {}
       /\ Cardinality(InProgress(c, a)) <= 1

\* both tasks have finished, one of them with an unlock call that threw and
\* the other with one that returned, and the set of their client is empty
C29_Witness ==
    \E c \in Clients, a \in BadgeIds :
       /\ \A t \in Tasks : task[t].pc = "done" /\ task[t].client = c
       /\ \E t \in Tasks : task[t].hist[a].result = "threw"
       /\ \E t \in Tasks : task[t].hist[a].result \in {"unlocked", "deduped"}
       /\ inFlightUnlocks[c] = {}


\* C26 - The in-flight guard only short-circuits true duplicates: an unlock
\* call is skipped by the guard only when another unlock call of the same
\* process for the same user and the same badge has been in progress; a call
\* for a different user with the same badge id is never skipped.
C26_GuardOnlyDuplicates ==
    \A t \in Tasks, a \in BadgeIds :
       task[t].hist[a].result = "inflight"
         => \E other \in Tasks \ {t} :
               /\ task[other].client = task[t].client
               /\ task[other].uid = task[t].uid
               /\ task[other].hist[a].result \notin {"none", "missing", "inflight"}
====
